---------------------------- MODULE Spec2Model ----------------------------
(***************************************************************************)
(* A model of the entropy-coding core of the JPEG XL reference codec:      *)
(*   - the Lehmer code of a permutation       (src/jxl/lehmer_code.h)      *)
(*   - the ANS round trip driven by           (src/jxl/ans_test.cc)        *)
(*   - the ICC predictive decoder and reader  (src/lib/jxl/icc_codec.cc)   *)
(* Each part is a state machine of its own with its own specification; the *)
(* variables of the other parts stay at their idle values.                 *)
(***************************************************************************)
EXTENDS Integers, Sequences, FiniteSets, TLC

VARIABLES
  lehPc,        \* position of the Lehmer round trip
  lehN,         \* n, the number of items
  permutation,  \* permutation[0..n), as a sequence
  code,         \* code[0..n), as a sequence
  lehSrc        \* the input the round trip started from

lehVars == <<lehPc, lehN, permutation, code, lehSrc>>

VARIABLES
  ansPc,            \* position in RoundtripTestcase
  input_values,     \* the token vector under test
  writer,           \* the bits the BitWriter holds
  context_map,      \* the context map the encoder emitted
  codes,            \* the histograms the encoder built
  encOrder,         \* the token indices in the order WriteTokens processed them
  encEmitted,       \* the 16-bit chunks WriteTokens emitted, in emission order
  bodyEnd,          \* the writer's bit position after WriteTokens
  br,               \* the BitReader: its bit position
  dec_context_map,  \* the context map DecodeHistograms returned
  decoded_codes,    \* the histograms DecodeHistograms returned
  reader,           \* the ANSSymbolReader: its 32-bit state
  decoded,          \* the (symbol, bits) pairs read so far
  decPulled,        \* the 16-bit chunks the reader pulled, in order
  finalOk           \* the result of CheckANSFinalState, once called

ansVars == <<ansPc, input_values, writer, context_map, codes, encOrder,
             encEmitted, bodyEnd, br, dec_context_map, decoded_codes, reader,
             decoded, decPulled, finalOk>>

VARIABLES
  unpPc,     \* position of the caller of UnpredictICC
  unpEnc,    \* enc, the bytes passed to UnpredictICC
  unpState   \* the call: its position, locals, result and returned status

unpVars == <<unpPc, unpEnc, unpState>>

VARIABLES
  iccPc,          \* position of the caller of the ICCReader
  iccStream,      \* the bits of the whole input
  iccOrigin,      \* how the input was made: the bytes encoded, and the change
  iccAvail,       \* the number of bytes of the input the caller holds
  iccBr,          \* the BitReader of this session: its bit position
  icc_reader,     \* the ICCReader: its fields
  iccStatus,      \* the Status Init or Process returned last
  decoded_icc,    \* the PaddedBytes Process wrote
  iccCheckpoint,  \* what the last save() of Process recorded
  iccSession      \* the number of BitReaders made so far

iccVars == <<iccPc, iccStream, iccOrigin, iccAvail, iccBr, icc_reader,
             iccStatus, decoded_icc, iccCheckpoint, iccSession>>

VARIABLES
  bioPc,   \* position of the caller of a BitWriter and then a BitReader
  bioW,    \* the BitWriter: its bits, its allotment, the writes made
  bioR     \* the BitReader over the writer's span: its position, the reads

bioVars == <<bioPc, bioW, bioR>>

VARIABLES
  dfPc,    \* position inside DecodeFile or DoTestOneInput
  df       \* the call: its inputs, its BitReader, ret and the value returned

dfVars == <<dfPc, df>>

VARIABLES
  cmPc,    \* position of the context map round trip
  cm       \* the map, the permutation and histograms chosen, the bits written
           \* and what DecodeHistograms returned

cmVars == <<cmPc, cm>>

VARIABLES
  putPc,   \* position of the caller of the ANS encoder
  put      \* the encoder: its state before and after the last step, the
           \* symbol coded, the chunks emitted

putVars == <<putPc, put>>

VARIABLES
  pool,    \* the ThreadParallelRunner: its fields, and what was called on it
  thr      \* the threads: the callers of the pool and its workers, each with
           \* its position and its locals

poolVars == <<pool, thr>>

vars ==
  <<lehVars, ansVars, unpVars, iccVars, bioVars, dfVars, cmVars, putVars,
    poolVars>>

otherThanLehmer ==
  <<ansVars, unpVars, iccVars, bioVars, dfVars, cmVars, putVars,
    poolVars>>
otherThanAns ==
  <<lehVars, unpVars, iccVars, bioVars, dfVars, cmVars, putVars,
    poolVars>>
otherThanUnpredict ==
  <<lehVars, ansVars, iccVars, bioVars, dfVars, cmVars, putVars,
    poolVars>>
otherThanReader ==
  <<lehVars, ansVars, unpVars, bioVars, dfVars, cmVars, putVars,
    poolVars>>
otherThanBitIO ==
  <<lehVars, ansVars, unpVars, iccVars, dfVars, cmVars, putVars,
    poolVars>>
otherThanDecodeFile ==
  <<lehVars, ansVars, unpVars, iccVars, bioVars, cmVars, putVars,
    poolVars>>
otherThanPutSymbol ==
  <<lehVars, ansVars, unpVars, iccVars, bioVars, dfVars, cmVars,
    poolVars>>
otherThanContextMap ==
  <<lehVars, ansVars, unpVars, iccVars, bioVars, dfVars, putVars,
    poolVars>>
otherThanPool ==
  <<lehVars, ansVars, unpVars, iccVars, bioVars, dfVars, cmVars, putVars>>

-----------------------------------------------------------------------------
(* Arithmetic helpers                                                      *)

Pow2(k) == 2 ^ k

Min(a, b) == IF a < b THEN a ELSE b

\* s[lo] + .. + s[hi], by halves.
RECURSIVE SumRange(_, _, _)
SumRange(s, lo, hi) ==
  IF hi < lo THEN 0
  ELSE IF lo = hi THEN s[lo]
  ELSE LET mid == (lo + hi) \div 2
       IN  SumRange(s, lo, mid) + SumRange(s, mid + 1, hi)

SeqSum(s) == SumRange(s, 1, Len(s))

-----------------------------------------------------------------------------
(* Lehmer code: src/jxl/lehmer_code.h                                      *)

\* Bounds of the Lehmer inputs: every permutation and code of 1..MaxLehmerN items.
MaxLehmerN == 4

\* t & -t : the value of the lowest set bit (0 for 0).
RECURSIVE ValueOfLowest1Bit(_)
ValueOfLowest1Bit(t) ==
  IF t = 0 THEN 0
  ELSE IF t % 2 = 1 THEN 1 ELSE 2 * ValueOfLowest1Bit(t \div 2)

\* i &= i - 1 : clears the lowest set bit.
ClearLowest1Bit(i) == i - ValueOfLowest1Bit(i)

\* CeilLog2Nonzero(n): the least k with 2^k >= n.
RECURSIVE CeilLog2Nonzero(_)
CeilLog2Nonzero(n) == IF n <= 1 THEN 0 ELSE 1 + CeilLog2Nonzero((n + 1) \div 2)

\* The prefix sum with i decremented by one instead of clearing its lowest bit.
RECURSIVE FenwickSumLinear(_, _)
FenwickSumLinear(temp, i) ==
  IF i = 0 THEN 0 ELSE temp[i] + FenwickSumLinear(temp, i - 1)

\* while (i != 0) { penalty += temp[i]; i &= i - 1; }
RECURSIVE FenwickSum(_, _)
FenwickSum(temp, i) ==
  IF i = 0 THEN 0 ELSE temp[i] + FenwickSum(temp, ClearLowest1Bit(i))

\* The add that updates the first node only and does not walk up the tree.
FenwickAddNoPropagate(temp, i, n) ==
  IF i < n + 1 THEN [temp EXCEPT ![i] = @ + 1] ELSE temp

\* The add that adds 2 where the code adds 1.
RECURSIVE FenwickAddTwice(_, _, _)
FenwickAddTwice(temp, i, n) ==
  IF i < n + 1
    THEN FenwickAddTwice([temp EXCEPT ![i] = @ + 2], i + ValueOfLowest1Bit(i), n)
    ELSE temp

\* while (i < n + 1) { temp[i] += 1; i += ValueOfLowest1Bit(i); }
RECURSIVE FenwickAdd(_, _, _)
FenwickAdd(temp, i, n) ==
  IF i < n + 1
    THEN FenwickAdd([temp EXCEPT ![i] = @ + 1], i + ValueOfLowest1Bit(i), n)
    ELSE temp

\* The indices i at which the two loops over the Fenwick tree use temp[i].
RECURSIVE FenwickSumVisits(_)
FenwickSumVisits(i) ==
  IF i = 0 THEN {} ELSE {i} \cup FenwickSumVisits(ClearLowest1Bit(i))

RECURSIVE FenwickAddVisits(_, _)
FenwickAddVisits(i, n) ==
  IF i < n + 1 THEN {i} \cup FenwickAddVisits(i + ValueOfLowest1Bit(i), n)
  ELSE {}

\* The body of the loop over idx of ComputeLehmerCode; perm and the code are
\* sequences (index idx of the code is position idx + 1 here).  A run is the
\* code written so far, the indices of temp used so far, and whether every
\* JXL_DASSERT(s >= penalty) held.
RECURSIVE ComputeLehmerLoop(_, _, _, _, _)
ComputeLehmerLoop(perm, temp, n, idx, run) ==
  IF idx >= n THEN run
  ELSE LET s       == perm[idx + 1]
           penalty == FenwickSum(temp, s + 1)
       IN  ComputeLehmerLoop(perm, FenwickAdd(temp, s + 1, n), n, idx + 1,
             [code    |-> Append(run.code, s - penalty),
              touched |-> run.touched \cup FenwickSumVisits(s + 1)
                            \cup FenwickAddVisits(s + 1, n),
              dassert |-> run.dassert /\ s >= penalty])

\* ComputeLehmerCode(permutation, temp, n, code): temp has n + 1 elements, all
\* zeroed first.
ComputeLehmerRun(perm, n) ==
  ComputeLehmerLoop(perm, [i \in 0..n |-> 0], n, 0,
                    [code |-> <<>>, touched |-> 0..n, dassert |-> TRUE])

ComputeLehmerCode(perm, n) == ComputeLehmerRun(perm, n).code

\* for (i = 0; i <= log2n; i++) { cand = next + bit; bit >>= 1;
\*   if (temp[cand - 1] < rank) { next = cand; rank -= temp[cand - 1]; } }
RECURSIVE LehmerDescend(_, _, _, _, _, _)
LehmerDescend(temp, rank, bit, next, j, log2n) ==
  IF j > log2n THEN next
  ELSE LET cand == next + bit
       IN  IF temp[cand - 1] < rank
             THEN LehmerDescend(temp, rank - temp[cand - 1], bit \div 2, cand,
                                j + 1, log2n)
             ELSE LehmerDescend(temp, rank, bit \div 2, next, j + 1, log2n)

\* The indices cand - 1 at which that loop uses temp.
RECURSIVE LehmerDescendVisits(_, _, _, _, _, _)
LehmerDescendVisits(temp, rank, bit, next, j, log2n) ==
  IF j > log2n THEN {}
  ELSE LET cand == next + bit
       IN  {cand - 1} \cup
           (IF temp[cand - 1] < rank
              THEN LehmerDescendVisits(temp, rank - temp[cand - 1], bit \div 2,
                                       cand, j + 1, log2n)
              ELSE LehmerDescendVisits(temp, rank, bit \div 2, next, j + 1,
                                       log2n))

\* while (next <= padded_n) { temp[next - 1] -= 1; next += ValueOfLowest1Bit(next); }
RECURSIVE LehmerMarkUsed(_, _, _)
LehmerMarkUsed(temp, next, padded_n) ==
  IF next <= padded_n
    THEN LehmerMarkUsed([temp EXCEPT ![next - 1] = @ - 1],
                        next + ValueOfLowest1Bit(next), padded_n)
    ELSE temp

\* The indices next - 1 at which that loop uses temp.
RECURSIVE LehmerMarkUsedVisits(_, _)
LehmerMarkUsedVisits(next, padded_n) ==
  IF next <= padded_n
    THEN {next - 1}
           \cup LehmerMarkUsedVisits(next + ValueOfLowest1Bit(next), padded_n)
    ELSE {}

\* The body of the loop over i of DecodeLehmerCode.  A run is the
\* permutation written so far, the indices of temp used so far, and whether
\* every JXL_DASSERT(code[i] + i < n) held.
RECURSIVE DecodeLehmerLoop(_, _, _, _, _, _)
DecodeLehmerLoop(c, temp, n, i, log2n, run) ==
  IF i >= n THEN run
  ELSE LET padded_n == Pow2(log2n)
           next     == LehmerDescend(temp, c[i + 1] + 1, padded_n, 0, 0, log2n)
       IN  DecodeLehmerLoop(c, LehmerMarkUsed(temp, next + 1, padded_n), n,
                            i + 1, log2n,
             [permutation |-> Append(run.permutation, next),
              touched     |-> run.touched
                                \cup LehmerDescendVisits(temp, c[i + 1] + 1,
                                                         padded_n, 0, 0, log2n)
                                \cup LehmerMarkUsedVisits(next + 1, padded_n),
              dassert     |-> run.dassert /\ c[i + 1] + i < n])

\* DecodeLehmerCode(code, temp, n, permutation): temp has 1 << CeilLog2(n)
\* elements, temp[i] initialised to the lowest set bit of i + 1.
DecodeLehmerRun(c, n) ==
  LET log2n    == CeilLog2Nonzero(n)
      padded_n == Pow2(log2n)
  IN  DecodeLehmerLoop(c, [i \in 0..(padded_n - 1) |-> ValueOfLowest1Bit(i + 1)],
                       n, 0, log2n,
                       [permutation |-> <<>>, touched |-> 0..(padded_n - 1),
                        dassert |-> TRUE])

DecodeLehmerCode(c, n) == DecodeLehmerRun(c, n).permutation

\* The inputs: a permutation is an array of n unique indices in [0..n); a
\* Lehmer code has code[i] + i < n.
IsPermutation(p, n) ==
  /\ Len(p) = n
  /\ \A i \in 1..n : p[i] \in 0..(n - 1)
  /\ \A i, j \in 1..n : i # j => p[i] # p[j]

IsLehmerCode(c, n) ==
  /\ Len(c) = n
  /\ \A i \in 1..n : c[i] >= 0 /\ c[i] + (i - 1) < n

PermutationsOf(n) == {p \in [1..n -> 0..(n - 1)] : IsPermutation(p, n)}

LehmerCodes(n) == {c \in [1..n -> 0..(n - 1)] : IsLehmerCode(c, n)}

\* The permutation of the literal end-to-end scenario.
ScenarioPermutation == <<3, 1, 4, 0, 5, 2, 7, 6>>

-----------------------------------------------------------------------------
(* Bit stream: a sequence of bits, the first written bit first (spec 4.1)  *)

\* The low n bits of v, least significant first.
BitsOf(n, v) == [k \in 1..n |-> (v \div Pow2(k - 1)) % 2]

\* The bit at 0-based position p of a span; zero past its end.
BitAt(span, p) == IF p < Len(span) THEN span[p + 1] ELSE 0

\* A read that takes the first bit of the stream as its most significant.
RECURSIVE ReadBitsMsbFirst(_, _, _)
ReadBitsMsbFirst(span, pos, n) ==
  IF n = 0 THEN 0
  ELSE BitAt(span, pos) * Pow2(n - 1) + ReadBitsMsbFirst(span, pos + 1, n - 1)

\* read(n): the n bits from position pos on, least significant first.
RECURSIVE ReadBits(_, _, _)
ReadBits(span, pos, n) ==
  IF n = 0 THEN 0 ELSE BitAt(span, pos) + 2 * ReadBits(span, pos + 1, n - 1)

\* A reader that tolerates reads into one more byte than the span holds.
AllReadsWithinBoundsPadded(span, pos) == pos <= Len(span) + 8


\* all_reads_within_bounds(): no read went past the end of the span.
AllReadsWithinBounds(span, pos) == pos <= Len(span)

\* zero_pad_to_byte(): zeros up to the next byte boundary.
ZeroPadToByte(bits) == bits \o [k \in 1..((8 - (Len(bits) % 8)) % 8) |-> 0]

\* The concatenation of the sequences ss[lo], .., ss[hi], by halves.
RECURSIVE FlattenRange(_, _, _)
FlattenRange(ss, lo, hi) ==
  IF hi < lo THEN <<>>
  ELSE IF lo = hi THEN ss[lo]
  ELSE LET mid == (lo + hi) \div 2
       IN  FlattenRange(ss, lo, mid) \o FlattenRange(ss, mid + 1, hi)

Flatten(ss) == FlattenRange(ss, 1, Len(ss))

-----------------------------------------------------------------------------
(* ANS tables and steps (spec 4.3, 6)                                      *)

\* 2^ANS_LOG_TAB_SIZE, ANS_LOG_TAB_SIZE = 12.
ANS_TAB_SIZE == 4096
ANS_MAX_ALPHA_SIZE == 4096

\* The 32-bit ANS state is kept as two 16-bit halves: s = hi * 2^16 + lo.
\* The canonical initial and final state 0x130000.
kANSFinalState == [hi |-> 19, lo |-> 0]

\* A histogram is the sequence of its frequencies, symbol s at index s + 1.
HistogramFreq(h, sym) == IF sym + 1 \in DOMAIN h THEN h[sym + 1] ELSE 0

\* start[s]: the cumulative sum of the earlier frequencies.
HistogramStart(h, sym) == SumRange(h, 1, Min(sym, Len(h)))

\* The decoder table entry {symbol, offset, freq} of a slot: slot i belongs
\* to symbol s for the freq[s] slots from cumulative_start[s] on.  A slot no
\* symbol owns (a histogram that does not sum to ANS_TAB_SIZE) has freq 0.
\* The search goes by halves of the symbols lo..hi, whose first slot is
\* start.
RECURSIVE DecoderEntryFrom(_, _, _, _, _)
DecoderEntryFrom(h, slot, lo, hi, start) ==
  IF hi < lo THEN [symbol |-> 0, offset |-> 0, freq |-> 0]
  ELSE IF lo = hi
    THEN IF slot < start + h[lo + 1]
           THEN [symbol |-> lo, offset |-> slot - start, freq |-> h[lo + 1]]
           ELSE [symbol |-> 0, offset |-> 0, freq |-> 0]
    ELSE LET mid  == (lo + hi) \div 2
             left == SumRange(h, lo + 1, mid + 1)
         IN  IF slot < start + left
               THEN DecoderEntryFrom(h, slot, lo, mid, start)
               ELSE DecoderEntryFrom(h, slot, mid + 1, hi, start + left)

DecoderEntry(h, slot) == DecoderEntryFrom(h, slot, 0, Len(h) - 1, 0)

\* shift[s]: the smallest integer with freq << shift >= 2^16.
RECURSIVE EncoderShift(_)
EncoderShift(freq) == IF freq >= 65536 THEN 0 ELSE 1 + EncoderShift(2 * freq)

\* The encode step as spec 4.3 words it: while (s >> (32 - shift)) >= freq
\* emit the low 16 bits and set s >>= 16 (32 - shift is 16 at least, so after
\* one emission the test fails); then
\* s = ((s / freq) << 12) | (start + s mod freq) in 32 bits.  overflow: the
\* quotient shifted left does not fit the register.
PutSymbolShift(s, freq, start) ==
  LET emit == (s.hi \div Pow2(16 - EncoderShift(freq))) >= freq
      x    == IF emit THEN [hi |-> 0, lo |-> s.hi] ELSE s
      qh   == x.hi \div freq
      t    == (x.hi % freq) * 65536 + x.lo
      ql   == t \div freq
      r    == t % freq
  IN  [state    |-> [hi |-> (qh * 4096 + ql \div 16) % 65536,
                     lo |-> (ql % 16) * 4096 + start + r],
       chunks   |-> IF emit THEN <<s.lo>> ELSE <<>>,
       overflow |-> qh >= 16]

\* The step without its renormalisation.
PutSymbolNoEmit(s, freq, start) ==
  LET qh == s.hi \div freq
      t  == (s.hi % freq) * 65536 + s.lo
      ql == t \div freq
      r  == t % freq
  IN  [state  |-> [hi |-> (qh * 4096 + ql \div 16) % 65536,
                   lo |-> (ql % 16) * 4096 + start + r],
       chunks |-> <<>>]

\* One encode step for a symbol of frequency freq >= 1 and cumulative start:
\* while the state is too large for the symbol (s >> 20 >= freq) emit its
\* low 16 bits and shift them out (once is enough: the state is then below
\* 2^16); then s = ((s / freq) << 12) | (start + s mod freq).
PutSymbol(s, freq, start) ==
  LET emit == (s.hi \div 16) >= freq
      x    == IF emit THEN [hi |-> 0, lo |-> s.hi] ELSE s
      qh   == x.hi \div freq
      t    == (x.hi % freq) * 65536 + x.lo
      ql   == t \div freq
      r    == t % freq
  IN  [state  |-> [hi |-> (qh * 4096 + ql \div 16) % 65536,
                   lo |-> (ql % 16) * 4096 + start + r],
       chunks |-> IF emit THEN <<s.lo>> ELSE <<>>]

\* while (s < 2^16) s = (s << 16) | read16().  A state of zero at the end of
\* the span stays zero whatever is pulled: the loop does not end (hang).
RECURSIVE PullWhileLow(_, _, _, _)
PullWhileLow(s, span, pos, pulled) ==
  IF s.hi # 0 THEN [state |-> s, pos |-> pos, pulled |-> pulled, hang |-> FALSE]
  ELSE IF s.lo = 0 /\ pos >= Len(span)
    THEN [state |-> s, pos |-> pos, pulled |-> pulled, hang |-> TRUE]
    ELSE LET w == ReadBits(span, pos, 16)
         IN  PullWhileLow([hi |-> s.lo, lo |-> w], span, pos + 16,
                          Append(pulled, w))

\* The state update without the offset of the slot inside its symbol.
AdvanceStateNoOffset(s, e) ==
  LET a == s.hi * 16 + s.lo \div ANS_TAB_SIZE
      m == e.freq * (a % 65536)
  IN  [hi |-> (e.freq * (a \div 65536) + m \div 65536) % 65536,
       lo |-> m % 65536]

\* s = freq * (s >> 12) + offset for the entry e of the slot of s.
AdvanceState(s, e) ==
  LET a == s.hi * 16 + s.lo \div ANS_TAB_SIZE
      m == e.freq * (a % 65536) + e.offset
  IN  [hi |-> (e.freq * (a \div 65536) + m \div 65536) % 65536,
       lo |-> m % 65536]

\* The symbol of the entry with the renormalised state p.
SymbolRead(symbol, p) ==
  [symbol |-> symbol, state |-> p.state, pos |-> p.pos, pulled |-> p.pulled,
   hang |-> p.hang]

\* One decode step under histogram h: slot = s & 0xFFF, the entry of the
\* slot, s = freq * (s >> 12) + offset, then the renormalisation.
ReadSymbolAt(s, e, span, pos) ==
  SymbolRead(e.symbol, PullWhileLow(AdvanceState(s, e), span, pos, <<>>))

ReadSymbol(s, h, span, pos) ==
  ReadSymbolAt(s, DecoderEntry(h, s.lo % ANS_TAB_SIZE), span, pos)

\* check_final_state(): the state is the canonical constant.
CheckANSFinalState(s) == s = kANSFinalState

-----------------------------------------------------------------------------
(* Histograms and context map on the wire (spec 4.2, 4.4, 6)               *)

IsEmptyHistogram(h) == \A i \in DOMAIN h : h[i] = 0

Support(h) == {i - 1 : i \in {j \in DOMAIN h : h[j] # 0}}

\* Empty: one flag bit.  Singleton: flag and symbol index.  General: the
\* alphabet size and one count per symbol.
EncodeHistogram(h) ==
  IF IsEmptyHistogram(h) THEN <<1>>
  ELSE IF Cardinality(Support(h)) = 1
    THEN <<0, 1>> \o BitsOf(12, CHOOSE x \in Support(h) : TRUE)
    ELSE <<0, 0>> \o BitsOf(13, Len(h))
         \o Flatten([i \in 1..Len(h) |-> BitsOf(13, h[i])])

\* The inverse; rejects a table whose counts do not sum to ANS_TAB_SIZE or
\* whose alphabet exceeds max_alphabet.
DecodeHistogram(span, pos, max_alphabet) ==
  IF ReadBits(span, pos, 1) = 1
    THEN [ok |-> TRUE, h |-> <<>>, pos |-> pos + 1]
  ELSE IF ReadBits(span, pos + 1, 1) = 1
    THEN LET sym == ReadBits(span, pos + 2, 12)
         IN  [ok  |-> sym < max_alphabet,
              h   |-> [i \in 1..(sym + 1) |->
                         IF i = sym + 1 THEN ANS_TAB_SIZE ELSE 0],
              pos |-> pos + 14]
    ELSE LET n == ReadBits(span, pos + 2, 13)
             h == [i \in 1..Min(n, max_alphabet) |->
                     ReadBits(span, pos + 15 + 13 * (i - 1), 13)]
         IN  [ok  |-> n <= max_alphabet /\ SeqSum(h) = ANS_TAB_SIZE,
              h   |-> h,
              pos |-> pos + 15 + 13 * Min(n, max_alphabet)]

\* Move-To-Front: the position of each entry in a list that starts as
\* [0..K) and has every entry moved to its front once output.
MoveToFrontList(list, k) ==
  <<list[k]>> \o [i \in 1..(Len(list) - 1) |->
                    IF i < k THEN list[i] ELSE list[i + 1]]

PositionIn(list, v) == CHOOSE k \in 1..Len(list) : list[k] = v

\* Entry by entry: up to 2^k entries from v.done on.
RECURSIVE MoveToFrontRun(_, _, _)
MoveToFrontRun(m, v, k) ==
  IF v.done >= Len(m) THEN v
  ELSE IF k = 0
    THEN LET j == PositionIn(v.list, m[v.done + 1])
         IN  [out  |-> Append(v.out, j - 1),
              list |-> MoveToFrontList(v.list, j),
              done |-> v.done + 1]
    ELSE LET half == MoveToFrontRun(m, v, k - 1)
         IN  MoveToFrontRun(m, half, k - 1)

MoveToFront(m, list) ==
  MoveToFrontRun(m, [out |-> <<>>, list |-> list, done |-> 0],
                 CeilLog2Nonzero(Len(m) + 1)).out

\* The inverse, entry by entry: up to 2^k entries from v.done on.
RECURSIVE InverseMoveToFrontRun(_, _, _)
InverseMoveToFrontRun(ps, v, k) ==
  IF v.done >= Len(ps) THEN v
  ELSE IF k = 0
    THEN LET j == ps[v.done + 1] + 1
         IN  [out  |-> Append(v.out, v.list[j]),
              list |-> MoveToFrontList(v.list, j),
              done |-> v.done + 1]
    ELSE LET half == InverseMoveToFrontRun(ps, v, k - 1)
         IN  InverseMoveToFrontRun(ps, half, k - 1)

InverseMoveToFront(ps, list) ==
  InverseMoveToFrontRun(ps, [out |-> <<>>, list |-> list, done |-> 0],
                        CeilLog2Nonzero(Len(ps) + 1)).out

NumHistograms(m) ==
  1 + (CHOOSE x \in {m[i] : i \in DOMAIN m} :
         \A y \in {m[i] : i \in DOMAIN m} : y <= x)

\* The context map: a zero flag when K = 1; else a one, the optional
\* permutation of the initial Move-To-Front list (a flag and, when set, its
\* Lehmer code) and the Move-To-Front positions.  perm = <<>>: no permutation.
EncodeContextMap(m, K, perm) ==
  IF K = 1 THEN <<0>>
  ELSE LET list == IF perm = <<>> THEN [k \in 1..K |-> k - 1] ELSE perm
           ps   == MoveToFront(m, list)
       IN  <<1>>
           \o (IF perm = <<>> THEN <<0>>
               ELSE <<1>> \o Flatten([i \in 1..K |->
                                BitsOf(8, ComputeLehmerCode(perm, K)[i])]))
           \o Flatten([i \in 1..Len(m) |-> BitsOf(8, ps[i])])

\* num_histograms - 1, the context map, then each histogram.
EncodeHistogramsPermuted(m, cds, perm) ==
  LET K == Len(cds)
  IN  BitsOf(8, K - 1)
      \o (IF Len(m) > 1 THEN EncodeContextMap(m, K, perm) ELSE <<>>)
      \o Flatten([k \in 1..K |-> EncodeHistogram(cds[k])])

\* The encoder that never permutes the initial list.
EncodeHistograms(m, cds) == EncodeHistogramsPermuted(m, cds, <<>>)

\* A decoder that reads the permutation and leaves the initial list as it is.
DecodeContextMapUnpermuted(span, pos, n_contexts, K) ==
  LET flag == ReadBits(span, pos, 1)
      perm == IF flag = 1 THEN ReadBits(span, pos + 1, 1) ELSE 0
      p1   == pos + 1 + (IF flag = 1 THEN 1 ELSE 0)
                + (IF perm = 1 THEN 8 * K ELSE 0)
      ps   == [i \in 1..n_contexts |-> ReadBits(span, p1 + 8 * (i - 1), 8)]
      ok   == flag = 0 \/ \A i \in 1..n_contexts : ps[i] < K
  IN  [ok  |-> ok,
       context_map |->
         IF flag = 0 THEN [i \in 1..n_contexts |-> 0]
         ELSE IF ok THEN InverseMoveToFront(ps, [k \in 1..K |-> k - 1])
         ELSE <<>>,
       pos |-> IF flag = 0 THEN p1 ELSE p1 + 8 * n_contexts]

\* The decoder of the context map: the optional Lehmer permutation, then the
\* Move-To-Front positions; both are inverted and max(m) < K is enforced.
DecodeContextMap(span, pos, n_contexts, K) ==
  LET flag == ReadBits(span, pos, 1)
      perm == IF flag = 1 THEN ReadBits(span, pos + 1, 1) ELSE 0
      c    == IF perm = 1
                THEN [i \in 1..K |-> ReadBits(span, pos + 2 + 8 * (i - 1), 8)]
                ELSE <<>>
      p1   == pos + 1 + (IF flag = 1 THEN 1 ELSE 0)
                + (IF perm = 1 THEN 8 * K ELSE 0)
      ps   == [i \in 1..n_contexts |-> ReadBits(span, p1 + 8 * (i - 1), 8)]
      ok   == \/ flag = 0
              \/ /\ \A i \in 1..n_contexts : ps[i] < K
                 /\ perm = 1 => IsLehmerCode(c, K)
  IN  [ok  |-> ok,
       context_map |->
         IF flag = 0 THEN [i \in 1..n_contexts |-> 0]
         ELSE IF ok
           THEN InverseMoveToFront(ps, IF perm = 1 THEN DecodeLehmerCode(c, K)
                                       ELSE [k \in 1..K |-> k - 1])
         ELSE <<>>,
       pos |-> IF flag = 0 THEN p1 ELSE p1 + 8 * n_contexts]

RECURSIVE DecodeHistogramList(_, _, _, _, _)
DecodeHistogramList(span, pos, k, max_alphabet, acc) ==
  IF k = 0 THEN [ok |-> TRUE, codes |-> acc, pos |-> pos]
  ELSE LET d == DecodeHistogram(span, pos, max_alphabet)
       IN  IF ~d.ok THEN [ok |-> FALSE, codes |-> acc, pos |-> d.pos]
           ELSE DecodeHistogramList(span, d.pos, k - 1, max_alphabet,
                                    Append(acc, d.h))

\* decode_histograms(reader, n_contexts, max_alphabet): recovers K, the
\* context map (enforcing max(m) < K) and the K histograms.
DecodeHistograms(span, pos, n_contexts, max_alphabet) ==
  LET K  == ReadBits(span, pos, 8) + 1
      dm == IF n_contexts > 1
              THEN DecodeContextMap(span, pos + 8, n_contexts, K)
              ELSE [ok |-> TRUE, context_map |-> [i \in 1..n_contexts |-> 0],
                    pos |-> pos + 8]
      hs == DecodeHistogramList(span, dm.pos, K, max_alphabet, <<>>)
  IN  IF ~dm.ok
        THEN [ok |-> FALSE, context_map |-> <<>>, codes |-> <<>>,
              pos |-> dm.pos]
        ELSE [ok |-> hs.ok, context_map |-> dm.context_map,
              codes |-> hs.codes, pos |-> hs.pos]

-----------------------------------------------------------------------------
(* WriteTokens (spec 4.5)                                                  *)

Reverse(s) == [i \in 1..Len(s) |-> s[Len(s) + 1 - i]]

\* Tokens n, n-1, .., 1 in that order: for each one its raw bits are put on
\* the output first and then one ANS step is taken.  items is the output in
\* the order the decoder reads it (the reverse of the order of emission);
\* next is the token to process, 0 when all are done.
EncodeToken(tokens, cds, m, acc) ==
  LET i     == acc.next
      t     == tokens[i]
      h     == cds[m[t.context + 1] + 1]
      coded == PutSymbol(acc.state, HistogramFreq(h, t.symbol),
                         HistogramStart(h, t.symbol))
  IN  [next    |-> i - 1,
       state   |-> coded.state,
       items   |-> [k \in 1..Len(coded.chunks) |->
                      BitsOf(16, Reverse(coded.chunks)[k])]
                   \o <<BitsOf(t.nbits, t.bits)>> \o acc.items,
       order   |-> Append(acc.order, i - 1),
       emitted |-> acc.emitted \o coded.chunks]

\* Up to 2^k tokens from acc.next down.
RECURSIVE EncodeTokensFrom(_, _, _, _, _)
EncodeTokensFrom(tokens, cds, m, acc, k) ==
  IF acc.next = 0 THEN acc
  ELSE IF k = 0 THEN EncodeToken(tokens, cds, m, acc)
  ELSE LET half == EncodeTokensFrom(tokens, cds, m, acc, k - 1)
       IN  EncodeTokensFrom(tokens, cds, m, half, k - 1)

EncodeTokens(tokens, cds, m) ==
  EncodeTokensFrom(tokens, cds, m,
                   [next |-> Len(tokens), state |-> kANSFinalState,
                    items |-> <<>>, order |-> <<>>, emitted |-> <<>>],
                   CeilLog2Nonzero(Len(tokens) + 1))

\* write_tokens: the final ANS state (32 bits), then the body.
WriteTokens(tokens, cds, m) ==
  LET e == EncodeTokens(tokens, cds, m)
  IN  BitsOf(16, e.state.lo) \o BitsOf(16, e.state.hi) \o Flatten(e.items)

-----------------------------------------------------------------------------
(* 64-bit unsigned values, kept as four 16-bit limbs, least significant    *)
(* first, so that no intermediate value leaves the range of the checker    *)

\* The 64-bit value of a natural number below 2^31.
U64(n) == <<n % 65536, n \div 65536, 0, 0>>


\* a < b
U64Less(a, b) ==
  \/ a[4] < b[4]
  \/ a[4] = b[4] /\ a[3] < b[3]
  \/ a[4] = b[4] /\ a[3] = b[3] /\ a[2] < b[2]
  \/ a[4] = b[4] /\ a[3] = b[3] /\ a[2] = b[2] /\ a[1] < b[1]

\* a * m + b for a small m, modulo 2^64, with the carry out of the top limb.
U64MulAdd(a, m, b) ==
  LET t1 == a[1] * m + b[1]
      t2 == a[2] * m + b[2] + t1 \div 65536
      t3 == a[3] * m + b[3] + t2 \div 65536
      t4 == a[4] * m + b[4] + t3 \div 65536
  IN  [v     |-> <<t1 % 65536, t2 % 65536, t3 % 65536, t4 % 65536>>,
       carry |-> t4 \div 65536]

\* a + b modulo 2^64.
U64Add(a, b) == U64MulAdd(a, 1, b).v

\* a - 1 modulo 2^64.
U64Dec(a) ==
  IF a[1] > 0 THEN <<a[1] - 1, a[2], a[3], a[4]>>
  ELSE IF a[2] > 0 THEN <<65535, a[2] - 1, a[3], a[4]>>
  ELSE IF a[3] > 0 THEN <<65535, 65535, a[3] - 1, a[4]>>
  ELSE IF a[4] > 0 THEN <<65535, 65535, 65535, a[4] - 1>>
  ELSE <<65535, 65535, 65535, 65535>>

\* ret | (static_cast<uint64_t>(b) << shift) for b below 256 and bits of ret
\* clear from shift on; the bits shifted beyond bit 63 are lost.
U64OrShifted(ret, b, shift) ==
  LET k  == shift \div 16
      w  == b * Pow2(shift % 16)
      lo == w % 65536
      hi == w \div 65536
  IN  [j \in 1..4 |-> IF j = k + 1 THEN ret[j] + lo
                      ELSE IF j = k + 2 THEN ret[j] + hi
                      ELSE ret[j]]

\* The value as a natural number, for a value below 2^31.
U64ToNat(v) == v[1] + 65536 * v[2]

\* The four bytes of the low 32 bits, most significant first.
Uint32Bytes(v) == <<v[2] \div 256, v[2] % 256, v[1] \div 256, v[1] % 256>>

-----------------------------------------------------------------------------
(* Helpers of the ICC codec that UnpredictICC calls (spec 4.6, 6)          *)

kICCHeaderSize == 128
\* Commands of the main stream and of the tag list.
kCommand ==
  [Insert |-> 1,
   Shuffle2 |-> 2,
   Shuffle4 |-> 3,
   Predict |-> 4,
   XYZ |-> 10,
   TypeStartFirst |-> 16,
   TagUnknown |-> 1,
   TagTRC |-> 2,
   TagXYZ |-> 3,
   TagStringFirst |-> 4]
kFlagBitOffset == 64
kFlagBitSize == 128

\* Keywords, as their four ASCII bytes.
kTag ==
  [cprt |-> <<99, 112, 114, 116>>,
   wtpt |-> <<119, 116, 112, 116>>,
   bkpt |-> <<98, 107, 112, 116>>,
   rXYZ |-> <<114, 88, 89, 90>>,
   gXYZ |-> <<103, 88, 89, 90>>,
   bXYZ |-> <<98, 88, 89, 90>>,
   kXYZ |-> <<107, 88, 89, 90>>,
   rTRC |-> <<114, 84, 82, 67>>,
   gTRC |-> <<103, 84, 82, 67>>,
   bTRC |-> <<98, 84, 82, 67>>,
   kTRC |-> <<107, 84, 82, 67>>,
   chad |-> <<99, 104, 97, 100>>,
   desc |-> <<100, 101, 115, 99>>,
   chrm |-> <<99, 104, 114, 109>>,
   dmnd |-> <<100, 109, 110, 100>>,
   dmdd |-> <<100, 109, 100, 100>>,
   lumi |-> <<108, 117, 109, 105>>,
   XYZ_ |-> <<88, 89, 90, 32>>,
   text |-> <<116, 101, 120, 116>>,
   mluc |-> <<109, 108, 117, 99>>,
   para |-> <<112, 97, 114, 97>>,
   curv |-> <<99, 117, 114, 118>>,
   sf32 |-> <<115, 102, 51, 50>>,
   gbd_ |-> <<103, 98, 100, 32>>]

\* The known tag keywords of the TAG_* commands, in command order.
kTagStrings ==
  <<kTag.cprt, kTag.wtpt, kTag.bkpt, kTag.rXYZ, kTag.gXYZ, kTag.bXYZ, kTag.kXYZ,
    kTag.rTRC, kTag.gTRC, kTag.bTRC, kTag.kTRC, kTag.chad, kTag.desc, kTag.chrm,
    kTag.dmnd, kTag.dmdd, kTag.lumi>>

\* The known type keywords of the TYPE_* commands, in command order.
kTypeStrings ==
  <<kTag.XYZ_, kTag.desc, kTag.text, kTag.mluc, kTag.para, kTag.curv, kTag.sf32,
    kTag.gbd_>>

\* The value has no bit set above bit 31.
CheckIs32Bit(v) == v[3] = 0 /\ v[4] = 0

\* a + b <= size, with no wrap of the 64-bit sum.
CheckOutOfBounds(a, b, size) ==
  LET sum == U64MulAdd(U64(a), 1, b)
  IN  sum.carry = 0 /\ ~U64Less(U64(size), sum.v)

\* The keyword at pos; a byte past the end of the input reads as a space.
DecodeKeyword(enc, size, pos) ==
  [k \in 1..4 |-> IF pos + k - 1 < size THEN enc[pos + k] ELSE 32]

\* The initial prediction of the 128 header bytes: fixed per byte and based
\* on the declared output size, which fills the first four bytes.
ICCInitialHeaderPrediction(osize) ==
  [k \in 1..kICCHeaderSize |-> IF k <= 4 THEN Uint32Bytes(osize)[k] ELSE 0]

\* The prediction of header byte i given the bytes decoded so far: the
\* per-byte predictions are fixed, so the header is left as it is.
ICCPredictHeader(icc, size, header, i) == header

\* order 0: p1; order 1: 2 p1 - p2; order 2: 3 p1 - 3 p2 + p3.
PredictValue(p1, p2, p3, order) ==
  IF order = 0 THEN p1
  ELSE IF order = 1 THEN 2 * p1 - p2
  ELSE IF order = 2 THEN 3 * p1 - 3 * p2 + p3
  ELSE 0

\* The 16-bit halves <<high, low>> of the big-endian 32-bit value at pos, or
\* zero when it does not lie within the first size bytes.
DecodeUint32(data, size, pos) ==
  IF pos + 4 > size THEN <<0, 0>>
  ELSE <<data[pos + 1] * 256 + data[pos + 2], data[pos + 3] * 256 + data[pos + 4]>>

\* The predicted value of byte start + i of data from the values one, two
\* and three strides back, of the given width in bytes, modulo 2^(8 width).
LinearPredictICCValue(data, start, i, stride, width, order) ==
  LET pos == start + i
  IN  IF width = 1
        THEN PredictValue(data[pos - stride + 1], data[pos - stride * 2 + 1],
                          data[pos - stride * 3 + 1], order) % 256
      ELSE IF width = 2
        THEN LET p    == start + (i - (i % 2))
                 p1   == data[p - stride + 1] * 256 + data[p - stride + 2]
                 p2   == data[p - stride * 2 + 1] * 256 + data[p - stride * 2 + 2]
                 p3   == data[p - stride * 3 + 1] * 256 + data[p - stride * 3 + 2]
                 pred == PredictValue(p1, p2, p3, order) % 65536
             IN  IF i % 2 = 1 THEN pred % 256 ELSE pred \div 256
      ELSE LET p    == start + (i - (i % 4))
               p1   == DecodeUint32(data, pos, p - stride)
               p2   == DecodeUint32(data, pos, p - stride * 2)
               p3   == DecodeUint32(data, pos, p - stride * 3)
               low  == PredictValue(p1[2], p2[2], p3[2], order)
               high == PredictValue(p1[1], p2[1], p3[1], order)
                         + ((low - (low % 65536)) \div 65536)
               pred == <<(high % 65536) \div 256, high % 256,
                         (low % 65536) \div 256, low % 256>>
           IN  pred[(i % 4) + 1]

-----------------------------------------------------------------------------
(* UnpredictICC: src/lib/jxl/icc_codec.cc.  enc is the sequence of the     *)
(* input bytes (enc[k] of the code is enc[k + 1] here) and size its length *)

\* result[i] = data[j]; j += height; if (j >= size) j = ++s;
RECURSIVE ShuffleLoop(_, _, _, _, _, _, _)
ShuffleLoop(data, size, height, i, s, j, result) ==
  IF i >= size THEN result
  ELSE LET j1 == j + height
       IN  ShuffleLoop(data, size, height, i + 1,
                       IF j1 >= size THEN s + 1 ELSE s,
                       IF j1 >= size THEN s + 1 ELSE j1,
                       Append(result, data[j + 1]))

\* Shuffle(data, size, width): the transposition of a width-column matrix.
Shuffle(data, size, width) ==
  ShuffleLoop(data, size, (size + width - 1) \div width, 0, 0, 0, <<>>)

kPreambleSize == 22

\* for (i = 0; *pos + i < inputSize && i < 10; ++i) { ret |= ..; if (..) break; }
RECURSIVE DecodeVarIntLoop(_, _, _, _, _)
DecodeVarIntLoop(input, inputSize, pos, i, ret) ==
  IF pos + i < inputSize /\ i < 10
    THEN LET b  == input[pos + i + 1]
             r1 == U64OrShifted(ret, b % 128, 7 * i)
         IN  IF b \div 128 = 0 THEN [ret |-> r1, i |-> i]
             ELSE DecodeVarIntLoop(input, inputSize, pos, i + 1, r1)
    ELSE [ret |-> ret, i |-> i]

\* DecodeVarInt(input, inputSize, &pos): the value, and pos advanced by i + 1;
\* n is the number of bytes input[pos], input[pos + 1], .. the loop read: i + 1
\* when it left by the break, i when its condition failed.
DecodeVarInt(input, inputSize, pos) ==
  LET d == DecodeVarIntLoop(input, inputSize, pos, 0, U64(0))
  IN  [ret |-> d.ret, pos |-> pos + d.i + 1,
       n |-> IF pos + d.i < inputSize /\ d.i < 10 THEN d.i + 1 ELSE d.i]

\* CheckPreamble with <= in place of < in the test of line 90.
CheckPreambleStrict(data, enc_size) ==
  LET size  == Len(data)
      osize == DecodeVarInt(data, size, 0)
      csize == DecodeVarInt(data, size, osize.pos)
  IN  IF ~CheckIs32Bit(osize.ret) THEN "Not 32 bit"
      ELSE IF osize.pos >= size THEN "Out of bounds"
      ELSE IF ~CheckIs32Bit(csize.ret) THEN "Not 32 bit"
      ELSE IF ~CheckOutOfBounds(csize.pos, csize.ret, size) THEN "Out of bounds"
      ELSE IF ~U64Less(U64(enc_size), U64Add(osize.ret, U64(65536)))
        THEN "Malformed ICC"
      ELSE IF U64Less(U64(Pow2(28)), osize.ret) THEN "Decoded ICC is too large"
      ELSE "ok"

\* CheckPreamble without the test of the output limit of lines 93-96.
CheckPreambleNoLimit(data, enc_size) ==
  LET size  == Len(data)
      osize == DecodeVarInt(data, size, 0)
      csize == DecodeVarInt(data, size, osize.pos)
  IN  IF ~CheckIs32Bit(osize.ret) THEN "Not 32 bit"
      ELSE IF osize.pos >= size THEN "Out of bounds"
      ELSE IF ~CheckIs32Bit(csize.ret) THEN "Not 32 bit"
      ELSE IF ~CheckOutOfBounds(csize.pos, csize.ret, size) THEN "Out of bounds"
      ELSE IF U64Less(U64Add(osize.ret, U64(65536)), U64(enc_size))
        THEN "Malformed ICC"
      ELSE "ok"

\* CheckPreamble(data, enc_size): data is the decoded prefix of the stream.
CheckPreamble(data, enc_size) ==
  LET size  == Len(data)
      osize == DecodeVarInt(data, size, 0)
      csize == DecodeVarInt(data, size, osize.pos)
  IN  IF ~CheckIs32Bit(osize.ret) THEN "Not 32 bit"
      ELSE IF osize.pos >= size THEN "Out of bounds"
      ELSE IF ~CheckIs32Bit(csize.ret) THEN "Not 32 bit"
      ELSE IF ~CheckOutOfBounds(csize.pos, csize.ret, size) THEN "Out of bounds"
      ELSE IF U64Less(U64Add(osize.ret, U64(65536)), U64(enc_size))
        THEN "Malformed ICC"
      ELSE IF U64Less(U64(Pow2(28)), osize.ret) THEN "Decoded ICC is too large"
      ELSE "ok"

\* The state of a call of UnpredictICC: where it is (pc), the failure it
\* returned (err), and its locals; predicts is the history of the PREDICT
\* commands it fetched.
UFail(u, msg) == [u EXCEPT !.pc = "fail", !.err = msg]

\* The call u after it read the n bytes enc[from], .., enc[from + n - 1]
\* through cpos (the command byte of an iteration, the flags of a PREDICT, a
\* VarInt of the commands) or through pos (the two sizes, the data): cread
\* and dread are the highest index read so far plus one, and cfirst is the
\* same for the first bytes of the reads through cpos, which leaves out the
\* bytes DecodeVarInt reads after the first one.
CommandRead(u, from, n) ==
  IF n > 0
    THEN [u EXCEPT !.cread = IF from + n > @ THEN from + n ELSE @,
                   !.cfirst = IF from + 1 > @ THEN from + 1 ELSE @]
    ELSE u

DataRead(u, from, n) ==
  IF n > 0 /\ from + n > u.dread THEN [u EXCEPT !.dread = from + n] ELSE u

\* The call u after a PREDICT command whose flags gave width and order and
\* whose stride was found to be stride, executed or refused.
PredictFetched(u, width, order, stride, executed) ==
  [u EXCEPT !.predicts = Append(@, [width |-> width, order |-> order,
                                    stride |-> stride, executed |-> executed])]

\* Lines 102-120: the two VarInts and the bounds of the command stream.
UnpredictPreamble(enc, size) ==
  LET u0 == [pc |-> "header", err |-> "", pos |-> 0, cpos |-> 0,
             commands_end |-> 0, osize |-> U64(0), result |-> <<>>,
             header |-> <<>>, i |-> 0,
             prevtagstart |-> U64(0), prevtagsize |-> U64(0), predicts |-> <<>>,
             cread |-> 0, cfirst |-> 0, dread |-> 0]
      osize == DecodeVarInt(enc, size, 0)
      csize == DecodeVarInt(enc, size, osize.pos)
  IN  IF 0 >= size THEN UFail(u0, "Out of bounds")
      ELSE IF ~CheckIs32Bit(osize.ret)
        THEN UFail(DataRead([u0 EXCEPT !.pos = osize.pos], 0, osize.n),
                   "Not 32 bit")
      ELSE IF osize.pos >= size
        THEN UFail(DataRead([u0 EXCEPT !.pos = osize.pos, !.osize = osize.ret],
                            0, osize.n),
                   "Out of bounds")
      ELSE LET u1 == DataRead(
                       DataRead(
                         [u0 EXCEPT !.pos = csize.pos, !.cpos = csize.pos,
                                    !.osize = osize.ret,
                                    !.header =
                                      ICCInitialHeaderPrediction(osize.ret)],
                         0, osize.n),
                       osize.pos, csize.n)
           IN  IF ~CheckIs32Bit(csize.ret) THEN UFail(u1, "Not 32 bit")
               ELSE IF ~CheckOutOfBounds(csize.pos, csize.ret, size)
                 THEN UFail(u1, "Out of bounds")
               ELSE [u1 EXCEPT
                       !.commands_end = csize.pos + U64ToNat(csize.ret),
                       !.pos = csize.pos + U64ToNat(csize.ret)]

\* The header loop with the check that all data was used left out.
UnpredictHeaderNoDataCheck(enc, size, u) ==
  IF U64(Len(u.result)) = u.osize
    THEN IF u.cpos # u.commands_end THEN UFail(u, "Not all commands used")
         ELSE [u EXCEPT !.pc = "ok"]
  ELSE IF u.i = kICCHeaderSize
    THEN IF u.cpos >= u.commands_end THEN UFail(u, "Out of bounds")
         ELSE [u EXCEPT !.pc = "taglist"]
  ELSE IF u.pos >= size THEN UFail(u, "Out of bounds")
  ELSE [u EXCEPT
          !.result = Append(@, (enc[u.pos + 1] + u.header[u.i + 1]) % 256),
          !.pos = @ + 1,
          !.i = @ + 1]

\* The header loop with the prediction of line 134 left out of the sum.
UnpredictHeaderNoPrediction(enc, size, u) ==
  IF U64(Len(u.result)) = u.osize
    THEN IF u.cpos # u.commands_end THEN UFail(u, "Not all commands used")
         ELSE IF u.pos # size THEN UFail(u, "Not all data used")
         ELSE [u EXCEPT !.pc = "ok"]
  ELSE IF u.i = kICCHeaderSize
    THEN IF u.cpos >= u.commands_end THEN UFail(u, "Out of bounds")
         ELSE [u EXCEPT !.pc = "taglist"]
  ELSE IF u.pos >= size THEN UFail(u, "Out of bounds")
  ELSE DataRead([u EXCEPT !.result = Append(@, enc[u.pos + 1]),
                          !.pos = @ + 1,
                          !.i = @ + 1],
                u.pos, 1)

\* Lines 125-136: one iteration of the loop over the header bytes, and the
\* check after the loop.
UnpredictHeader(enc, size, u) ==
  IF U64(Len(u.result)) = u.osize
    THEN IF u.cpos # u.commands_end THEN UFail(u, "Not all commands used")
         ELSE IF u.pos # size THEN UFail(u, "Not all data used")
         ELSE [u EXCEPT !.pc = "ok"]
  ELSE IF u.i = kICCHeaderSize
    THEN IF u.cpos >= u.commands_end THEN UFail(u, "Out of bounds")
         ELSE [u EXCEPT !.pc = "taglist"]
  ELSE LET h1 == ICCPredictHeader(u.result, Len(u.result), u.header, u.i)
       IN  IF u.pos >= size THEN UFail([u EXCEPT !.header = h1], "Out of bounds")
           ELSE DataRead(
                  [u EXCEPT
                     !.header = h1,
                     !.result = Append(@, (enc[u.pos + 1] + h1[u.i + 1]) % 256),
                     !.pos = @ + 1,
                     !.i = @ + 1],
                  u.pos, 1)

\* Lines 139-146: the number of tags.
UnpredictTagList(enc, size, u) ==
  LET numtags == DecodeVarInt(enc, size, u.cpos)
      u1      == CommandRead([u EXCEPT !.cpos = numtags.pos], u.cpos, numtags.n)
      n1      == U64Dec(numtags.ret)
  IN  IF numtags.ret = U64(0) THEN [u1 EXCEPT !.pc = "main"]
      ELSE IF ~CheckIs32Bit(n1) THEN UFail(u1, "Not 32 bit")
      ELSE [u1 EXCEPT !.pc = "tags",
                      !.result = @ \o Uint32Bytes(n1),
                      !.prevtagstart = U64MulAdd(n1, 12, U64(kICCHeaderSize)).v,
                      !.prevtagsize = U64(0)]

\* The tags whose size is 20 whatever the previous tag's size was.
kFixedSizeTags ==
  {kTag.rXYZ, kTag.gXYZ, kTag.bXYZ, kTag.kXYZ, kTag.wtpt, kTag.bkpt, kTag.lumi}

\* Lines 172-215: the start and size of a tag and the entries appended.
UnpredictTagEntry(enc, size, u, command, tagcode, tag) ==
  LET hasOffset == (command \div kFlagBitOffset) % 2 = 1
      hasSize   == (command \div kFlagBitSize) % 2 = 1
      start     == DecodeVarInt(enc, size, u.cpos)
      tagstart  == IF hasOffset THEN start.ret
                   ELSE U64Add(u.prevtagstart, u.prevtagsize)
      cpos1     == IF hasOffset THEN start.pos ELSE u.cpos
      sz        == DecodeVarInt(enc, size, cpos1)
      tagsize   == IF hasSize THEN sz.ret
                   ELSE IF tag \in kFixedSizeTags THEN U64(20)
                   ELSE u.prevtagsize
      cpos2     == IF hasSize THEN sz.pos ELSE cpos1
      second    == U64Add(tagstart, tagsize)
      third     == U64MulAdd(tagsize, 2, tagstart)
      ur1       == IF hasOffset
                     THEN CommandRead([u EXCEPT !.cpos = cpos1], u.cpos, start.n)
                     ELSE u
      ur2       == IF hasSize
                     THEN CommandRead([ur1 EXCEPT !.cpos = cpos2], cpos1, sz.n)
                     ELSE ur1
      u2        == [ur2 EXCEPT !.result = @ \o Uint32Bytes(tagstart)
                                            \o Uint32Bytes(tagsize),
                               !.prevtagstart = tagstart,
                               !.prevtagsize = tagsize]
  IN  IF hasOffset /\ u.cpos >= u.commands_end THEN UFail(u, "Out of bounds")
      ELSE IF ~hasOffset /\ ~CheckIs32Bit(u.prevtagstart)
        THEN UFail(u, "Not 32 bit")
      ELSE IF ~CheckIs32Bit(tagstart) THEN UFail(ur1, "Not 32 bit")
      ELSE IF hasSize /\ cpos1 >= u.commands_end
        THEN UFail(ur1, "Out of bounds")
      ELSE IF ~CheckIs32Bit(tagsize) THEN UFail(ur2, "Not 32 bit")
      ELSE IF tagcode = kCommand.TagTRC
        THEN [u2 EXCEPT !.result = @ \o kTag.gTRC \o Uint32Bytes(tagstart)
                                     \o Uint32Bytes(tagsize)
                                     \o kTag.bTRC \o Uint32Bytes(tagstart)
                                     \o Uint32Bytes(tagsize)]
      ELSE IF tagcode = kCommand.TagXYZ
        THEN IF third.carry # 0 \/ ~CheckIs32Bit(third.v)
               THEN UFail(u2, "Not 32 bit")
               ELSE [u2 EXCEPT !.result = @ \o kTag.gXYZ \o Uint32Bytes(second)
                                            \o Uint32Bytes(tagsize)
                                            \o kTag.bXYZ \o Uint32Bytes(third.v)
                                            \o Uint32Bytes(tagsize)]
      ELSE u2

\* Lines 148-216: one iteration of the loop over the tag list.
UnpredictTag(enc, size, u) ==
  IF U64Less(u.osize, U64(Len(u.result))) THEN UFail(u, "Invalid result size")
  ELSE IF u.cpos > u.commands_end THEN UFail(u, "Out of bounds")
  ELSE IF u.cpos = u.commands_end THEN [u EXCEPT !.pc = "main"]
  ELSE LET command == enc[u.cpos + 1]
           tagcode == command % 64
           u1      == CommandRead([u EXCEPT !.cpos = @ + 1], u.cpos, 1)
       IN  IF tagcode = 0 THEN [u1 EXCEPT !.pc = "main"]
           ELSE IF tagcode = kCommand.TagUnknown
             THEN IF ~CheckOutOfBounds(u1.pos, U64(4), size)
                    THEN UFail(u1, "Out of bounds")
                    ELSE LET tag == DecodeKeyword(enc, size, u1.pos)
                         IN  UnpredictTagEntry(enc, size,
                               DataRead([u1 EXCEPT !.pos = @ + 4,
                                                   !.result = @ \o tag],
                                        u1.pos, 4),
                               command, tagcode, tag)
           ELSE IF tagcode = kCommand.TagTRC
             THEN UnpredictTagEntry(enc, size,
                    [u1 EXCEPT !.result = @ \o kTag.rTRC],
                    command, tagcode, kTag.rTRC)
           ELSE IF tagcode = kCommand.TagXYZ
             THEN UnpredictTagEntry(enc, size,
                    [u1 EXCEPT !.result = @ \o kTag.rXYZ],
                    command, tagcode, kTag.rXYZ)
           ELSE IF tagcode - kCommand.TagStringFirst >= Len(kTagStrings)
             THEN UFail(u1, "Unknown tagcode")
           ELSE LET tag == kTagStrings[tagcode - kCommand.TagStringFirst + 1]
                IN  UnpredictTagEntry(enc, size,
                      [u1 EXCEPT !.result = @ \o tag], command, tagcode, tag)

\* Lines 251-300: the PREDICT command; the bytes are predicted one by one
\* from the output so far.
RECURSIVE PredictLoop(_, _, _, _, _, _, _, _)
PredictLoop(result, shuffled, start, i, num, stride, width, order) ==
  IF i >= num THEN result
  ELSE LET predicted == LinearPredictICCValue(result, start, i, stride,
                                              width, order)
       IN  PredictLoop(Append(result, (predicted + shuffled[i + 1]) % 256),
                       shuffled, start, i + 1, num, stride, width, order)

\* The PREDICT command without the test of lines 274-276.
UnpredictPredictAnyStride(enc, size, u) ==
  IF ~CheckOutOfBounds(u.cpos, U64(2), u.commands_end)
    THEN UFail(u, "Out of bounds")
  ELSE
    LET flags   == enc[u.cpos + 1]
        u1      == CommandRead([u EXCEPT !.cpos = @ + 1], u.cpos, 1)
        width   == (flags % 4) + 1
        order   == (flags % 16) \div 4
        hasStr  == (flags \div 16) % 2 = 1
        str     == DecodeVarInt(enc, size, u1.cpos)
        stride  == IF hasStr THEN str.ret ELSE U64(width)
        cpos1   == IF hasStr THEN str.pos ELSE u1.cpos
        u2      == IF hasStr
                     THEN CommandRead([u1 EXCEPT !.cpos = cpos1], u1.cpos, str.n)
                     ELSE u1
        num     == DecodeVarInt(enc, size, cpos1)
        u3      == CommandRead([u2 EXCEPT !.cpos = num.pos], cpos1, num.n)
    IN  IF width = 3
          THEN UFail(PredictFetched(u1, width, order, U64(width), FALSE),
                     "Invalid width")
        ELSE IF order = 3
          THEN UFail(PredictFetched(u1, width, order, U64(width), FALSE),
                     "Invalid order")
        ELSE IF hasStr /\ u1.cpos >= u1.commands_end
          THEN UFail(u1, "Out of bounds")
        ELSE IF hasStr /\ U64Less(stride, U64(width))
          THEN UFail(PredictFetched(u2, width, order, stride, FALSE),
                     "Invalid stride")
        ELSE IF cpos1 >= u.commands_end THEN UFail(u2, "Out of bounds")
        ELSE IF ~CheckOutOfBounds(u.pos, num.ret, size)
          THEN UFail(u3, "Out of bounds")
        ELSE LET n        == U64ToNat(num.ret)
                 raw      == [k \in 1..n |-> enc[u.pos + k]]
                 shuffled == IF width > 1 THEN Shuffle(raw, n, width) ELSE raw
             IN  DataRead(
                   [PredictFetched(u3, width, order, stride, TRUE) EXCEPT
                      !.result = PredictLoop(u.result, shuffled, Len(u.result),
                                             0, n, U64ToNat(stride), width,
                                             order),
                      !.pos = @ + n],
                   u.pos, n)

\* The PREDICT command without the test of line 252.
UnpredictPredictNoFlagsCheck(enc, size, u) ==
    LET flags   == enc[u.cpos + 1]
        u1      == CommandRead([u EXCEPT !.cpos = @ + 1], u.cpos, 1)
        width   == (flags % 4) + 1
        order   == (flags % 16) \div 4
        hasStr  == (flags \div 16) % 2 = 1
        str     == DecodeVarInt(enc, size, u1.cpos)
        stride  == IF hasStr THEN str.ret ELSE U64(width)
        cpos1   == IF hasStr THEN str.pos ELSE u1.cpos
        u2      == IF hasStr
                     THEN CommandRead([u1 EXCEPT !.cpos = cpos1], u1.cpos, str.n)
                     ELSE u1
        num     == DecodeVarInt(enc, size, cpos1)
        u3      == CommandRead([u2 EXCEPT !.cpos = num.pos], cpos1, num.n)
    IN  IF width = 3
          THEN UFail(PredictFetched(u1, width, order, U64(width), FALSE),
                     "Invalid width")
        ELSE IF order = 3
          THEN UFail(PredictFetched(u1, width, order, U64(width), FALSE),
                     "Invalid order")
        ELSE IF hasStr /\ u1.cpos >= u1.commands_end
          THEN UFail(u1, "Out of bounds")
        ELSE IF hasStr /\ U64Less(stride, U64(width))
          THEN UFail(PredictFetched(u2, width, order, stride, FALSE),
                     "Invalid stride")
        ELSE IF u.result = <<>>
                  \/ U64Less(U64((Len(u.result) - 1) \div 4), stride)
          THEN UFail(PredictFetched(u2, width, order, stride, FALSE),
                     "Invalid stride")
        ELSE IF cpos1 >= u.commands_end THEN UFail(u2, "Out of bounds")
        ELSE IF ~CheckOutOfBounds(u.pos, num.ret, size)
          THEN UFail(u3, "Out of bounds")
        ELSE LET n        == U64ToNat(num.ret)
                 raw      == [k \in 1..n |-> enc[u.pos + k]]
                 shuffled == IF width > 1 THEN Shuffle(raw, n, width) ELSE raw
             IN  DataRead(
                   [PredictFetched(u3, width, order, stride, TRUE) EXCEPT
                      !.result = PredictLoop(u.result, shuffled, Len(u.result),
                                             0, n, U64ToNat(stride), width,
                                             order),
                      !.pos = @ + n],
                   u.pos, n)

UnpredictPredict(enc, size, u) ==
  IF ~CheckOutOfBounds(u.cpos, U64(2), u.commands_end)
    THEN UFail(u, "Out of bounds")
  ELSE
    LET flags   == enc[u.cpos + 1]
        u1      == CommandRead([u EXCEPT !.cpos = @ + 1], u.cpos, 1)
        width   == (flags % 4) + 1
        order   == (flags % 16) \div 4
        hasStr  == (flags \div 16) % 2 = 1
        str     == DecodeVarInt(enc, size, u1.cpos)
        stride  == IF hasStr THEN str.ret ELSE U64(width)
        cpos1   == IF hasStr THEN str.pos ELSE u1.cpos
        u2      == IF hasStr
                     THEN CommandRead([u1 EXCEPT !.cpos = cpos1], u1.cpos, str.n)
                     ELSE u1
        num     == DecodeVarInt(enc, size, cpos1)
        u3      == CommandRead([u2 EXCEPT !.cpos = num.pos], cpos1, num.n)
    IN  IF width = 3
          THEN UFail(PredictFetched(u1, width, order, U64(width), FALSE),
                     "Invalid width")
        ELSE IF order = 3
          THEN UFail(PredictFetched(u1, width, order, U64(width), FALSE),
                     "Invalid order")
        ELSE IF hasStr /\ u1.cpos >= u1.commands_end
          THEN UFail(u1, "Out of bounds")
        ELSE IF hasStr /\ U64Less(stride, U64(width))
          THEN UFail(PredictFetched(u2, width, order, stride, FALSE),
                     "Invalid stride")
        ELSE IF u.result = <<>>
                  \/ U64Less(U64((Len(u.result) - 1) \div 4), stride)
          THEN UFail(PredictFetched(u2, width, order, stride, FALSE),
                     "Invalid stride")
        ELSE IF cpos1 >= u.commands_end THEN UFail(u2, "Out of bounds")
        ELSE IF ~CheckOutOfBounds(u.pos, num.ret, size)
          THEN UFail(u3, "Out of bounds")
        ELSE LET n        == U64ToNat(num.ret)
                 raw      == [k \in 1..n |-> enc[u.pos + k]]
                 shuffled == IF width > 1 THEN Shuffle(raw, n, width) ELSE raw
             IN  DataRead(
                   [PredictFetched(u3, width, order, stride, TRUE) EXCEPT
                      !.result = PredictLoop(u.result, shuffled, Len(u.result),
                                             0, n, U64ToNat(stride), width,
                                             order),
                      !.pos = @ + n],
                   u.pos, n)

\* Lines 221-325: one iteration of the loop over the main content, and the
\* checks after the loop once the commands are used up.
UnpredictCommand(enc, size, u) ==
  IF U64Less(u.osize, U64(Len(u.result))) THEN UFail(u, "Invalid result size")
  ELSE IF u.cpos > u.commands_end THEN UFail(u, "Out of bounds")
  ELSE IF u.cpos = u.commands_end
    THEN IF u.pos # size THEN UFail(u, "Not all data used")
         ELSE IF U64(Len(u.result)) # u.osize
           THEN UFail(u, "Invalid result size")
         ELSE [u EXCEPT !.pc = "ok"]
  ELSE
    LET command == enc[u.cpos + 1]
        u1      == CommandRead([u EXCEPT !.cpos = @ + 1], u.cpos, 1)
        num     == DecodeVarInt(enc, size, u1.cpos)
        u2      == CommandRead([u1 EXCEPT !.cpos = num.pos], u1.cpos, num.n)
        n       == U64ToNat(num.ret)
        raw     == [k \in 1..n |-> enc[u.pos + k]]
    IN  IF command = kCommand.Insert
          THEN IF u1.cpos >= u.commands_end THEN UFail(u1, "Out of bounds")
               ELSE IF ~CheckOutOfBounds(u.pos, num.ret, size)
                 THEN UFail(u2, "Out of bounds")
               ELSE DataRead([u2 EXCEPT !.result = @ \o raw, !.pos = @ + n],
                             u.pos, n)
        ELSE IF command = kCommand.Shuffle2 \/ command = kCommand.Shuffle4
          THEN IF u1.cpos >= u.commands_end THEN UFail(u1, "Out of bounds")
               ELSE IF ~CheckOutOfBounds(u.pos, num.ret, size)
                 THEN UFail(u2, "Out of bounds")
               ELSE DataRead(
                      [u2 EXCEPT
                         !.result = @ \o Shuffle(raw, n,
                                      IF command = kCommand.Shuffle2 THEN 2 ELSE 4),
                         !.pos = @ + n],
                      u.pos, n)
        ELSE IF command = kCommand.Predict THEN UnpredictPredict(enc, size, u1)
        ELSE IF command = kCommand.XYZ
          THEN LET u3 == [u1 EXCEPT !.result = @ \o kTag.XYZ_ \o <<0, 0, 0, 0>>]
               IN  IF ~CheckOutOfBounds(u.pos, U64(12), size)
                     THEN UFail(u3, "Out of bounds")
                     ELSE DataRead(
                            [u3 EXCEPT
                               !.result = @ \o [k \in 1..12 |-> enc[u.pos + k]],
                               !.pos = @ + 12],
                            u.pos, 12)
        ELSE IF command >= kCommand.TypeStartFirst
                  /\ command < kCommand.TypeStartFirst + Len(kTypeStrings)
          THEN [u1 EXCEPT
                  !.result = @ \o kTypeStrings[command - kCommand.TypeStartFirst + 1]
                               \o <<0, 0, 0, 0>>]
        ELSE UFail(u1, "Unknown command")

\* One step of UnpredictICC from where it stands.
UnpredictStep(enc, size, u) ==
  IF u.pc = "header" THEN UnpredictHeader(enc, size, u)
  ELSE IF u.pc = "taglist" THEN UnpredictTagList(enc, size, u)
  ELSE IF u.pc = "tags" THEN UnpredictTag(enc, size, u)
  ELSE IF u.pc = "main" THEN UnpredictCommand(enc, size, u)
  ELSE u

\* Up to 2^k steps, stopping at the return.
RECURSIVE UnpredictRun(_, _, _, _)
UnpredictRun(enc, size, u, k) ==
  IF u.pc \in {"ok", "fail"} THEN u
  ELSE IF k = 0 THEN UnpredictStep(enc, size, u)
  ELSE LET half == UnpredictRun(enc, size, u, k - 1)
       IN  UnpredictRun(enc, size, half, k - 1)

\* UnpredictICC(enc, size, result) for an empty result: every iteration of
\* a loop takes at least one byte of the input, so size + 4 steps are enough.
UnpredictICC(enc) ==
  LET size == Len(enc)
  IN  UnpredictRun(enc, size, UnpredictPreamble(enc, size),
                   CeilLog2Nonzero(size + 4))

-----------------------------------------------------------------------------
(* Direct calls of UnpredictICC                                            *)

\* Bounds of the inputs of a direct call.
MaxSmallLen == 4
MaxCommandBytes == 2

\* The unsigned LEB128 bytes of n.
RECURSIVE VarIntBytes(_)
VarIntBytes(n) ==
  IF n < 128 THEN <<n>> ELSE <<128 + (n % 128)>> \o VarIntBytes(n \div 128)

\* VarInt(output_size) || VarInt(commands_size) || commands || data.
EncOf(osize, commands, data) ==
  VarIntBytes(osize) \o VarIntBytes(Len(commands)) \o commands \o data

\* Every byte string of up to MaxSmallLen bytes over a few byte values: the
\* streams that end within the header.
SmallBytes == {0, 1, 2, 128, 255}

SmallEncs == UNION {[1..n -> SmallBytes] : n \in 0..MaxSmallLen}

\* Streams that go past the header: the number of tags, then up to
\* MaxCommandBytes bytes of commands, or one PREDICT command.
CommandBytes == {0, 1, 2, 3, 4, 10, 16, 68, 132}

PredictCommands ==
  {<<kCommand.Predict, f, n>> : f \in {0, 1, 2, 3, 5, 8, 12}, n \in {0, 1, 4}}
  \cup {<<kCommand.Predict, 16 + f, st, n>> :
          f \in {0, 1}, st \in {0, 1, 2, 32, 33}, n \in {1, 2}}

CommandStreams ==
  {<<t>> \o c : t \in 0..2,
                c \in (UNION {[1..n -> CommandBytes] : n \in 0..MaxCommandBytes})
                      \cup PredictCommands}

\* The data stream: the 128 header bytes and a tail.
HeaderData == [k \in 1..kICCHeaderSize |-> 0]

DataTails == {[k \in 1..n |-> 7 * k] : n \in {0, 1, 4, 12}}

\* A first declared size that no stream here reaches: the largest one whose
\* VarInt has two bytes.  The caller then declares the size the stream was
\* found to yield, one less or one more (UnpredictRedeclare).
kProbeSize == 128 * 128 - 1

LargeEncs ==
  {EncOf(kProbeSize, c, HeaderData \o d) : c \in CommandStreams, d \in DataTails}

\* Profiles of a few bytes more than the header whose one command is a
\* PREDICT of the bytes after the header with a stride of about a quarter
\* of the declared size.
StrideEncs ==
  {EncOf(kICCHeaderSize + n, <<0, kCommand.Predict, 16, st, n>>,
         HeaderData \o [k \in 1..n |-> 7 * k]) : st \in {31, 32, 33}, n \in {4, 5}}

\* A stream that is longer than its output by more than 65536 bytes: after
\* the header, INSERT commands of zero bytes, their count written as a
\* VarInt of ten bytes, and one INSERT of the last byte.
BombInserts == (65536 \div 11) + 1

BombEnc ==
  EncOf(kICCHeaderSize + 1,
        <<0>> \o [k \in 1..(11 * BombInserts) |->
                    IF (k - 1) % 11 = 0 THEN kCommand.Insert
                    ELSE IF (k - 1) % 11 = 10 THEN 0 ELSE 128]
            \o <<kCommand.Insert, 1>>,
        HeaderData \o <<7>>)

\* Profiles that end within the header or at its end: with and without a
\* command, and with one byte of data less or more than declared.
HeaderSizes == {5, kICCHeaderSize - 1, kICCHeaderSize}

HeaderEncs ==
  UNION {{EncOf(n, c, [k \in 1..(n + d) |-> (7 * k) % 256]) :
            c \in {<<>>, <<0>>}, d \in {-1, 0, 1}} : n \in HeaderSizes}

UnpredictNotCalled ==
  [pc |-> "none", err |-> "", pos |-> 0, cpos |-> 0, commands_end |-> 0,
   osize |-> U64(0), result |-> <<>>, header |-> <<>>, i |-> 0,
   prevtagstart |-> U64(0), prevtagsize |-> U64(0), predicts |-> <<>>,
             cread |-> 0, cfirst |-> 0, dread |-> 0]

UnpredictIdle ==
  unpPc = "idle" /\ unpEnc = <<>> /\ unpState = UnpredictNotCalled

UnpredictInit ==
  /\ unpEnc \in SmallEncs \cup HeaderEncs \cup LargeEncs \cup StrideEncs
                  \cup {BombEnc}
  /\ unpPc = "call"
  /\ unpState = UnpredictNotCalled

\* UnpredictICC(enc, size, &result) with an empty result.
UnpredictCall ==
  /\ unpPc \in {"call", "recall"}
  /\ unpState' = UnpredictICC(unpEnc)
  /\ unpPc' = IF unpPc = "call" THEN "returned" ELSE "done"
  /\ UNCHANGED unpEnc
  /\ UNCHANGED otherThanUnpredict

\* The caller of a stream whose only fault was its declared size passes the
\* same commands and data again, declaring the size they yielded, one less
\* or one more.
UnpredictRedeclare ==
  /\ unpPc = "returned"
  /\ unpState.pc = "fail" /\ unpState.err = "Invalid result size"
  /\ unpState.osize = U64(kProbeSize)
  /\ unpState.cpos = unpState.commands_end /\ unpState.pos = Len(unpEnc)
  /\ \E o \in {Len(unpState.result) - 1, Len(unpState.result),
               Len(unpState.result) + 1} :
       unpEnc' = VarIntBytes(o)
                   \o SubSeq(unpEnc, Len(VarIntBytes(kProbeSize)) + 1, Len(unpEnc))
  /\ unpPc' = "recall"
  /\ unpState' = UnpredictNotCalled
  /\ UNCHANGED otherThanUnpredict

UnpredictNext == UnpredictCall \/ UnpredictRedeclare

\* DecodeVarInt on its own.  The inputs: every byte string of up to
\* MaxVarIntLen bytes over a few byte values, and strings of 9 to 12 bytes
\* whose first 9 or more bytes have the continuation bit set; pos is any
\* position inside the input, as at the calls of UnpredictICC.
MaxVarIntLen == 3

VarIntInputs ==
  UNION {[1..n -> {0, 1, 127, 128, 255}] : n \in 1..MaxVarIntLen}
  \cup {[k \in 1..n |-> IF k <= c THEN hi ELSE 1] :
          n \in 9..12, c \in 9..12, hi \in {128, 255}}

\* The caller before the call: unpState.pos is pos, and unpState.cpos keeps
\* the position the call started from.
DecodeVarIntStart ==
  /\ unpEnc \in VarIntInputs
  /\ unpPc = "varint"
  /\ \E pos \in 0..(Len(unpEnc) - 1) :
       unpState = [UnpredictNotCalled EXCEPT !.pos = pos, !.cpos = pos]

\* osize = DecodeVarInt(enc, size, &pos), as at line 111.
DecodeVarIntCall ==
  /\ unpPc = "varint"
  /\ LET d == DecodeVarInt(unpEnc, Len(unpEnc), unpState.pos)
     IN  unpState' = [unpState EXCEPT !.osize = d.ret, !.pos = d.pos]
  /\ unpPc' = "varint_done"
  /\ UNCHANGED unpEnc
  /\ UNCHANGED otherThanUnpredict

-----------------------------------------------------------------------------
(* What the ICCReader calls (spec 4.1, 4.5, 4.6)                           *)

\* The number of ANS contexts of an ICC stream.
kNumICCContexts == 41

\* ANSSymbolReader::kMaxCheckpointInterval, the number of symbols between
\* two checkpoints.  The specification names it without a value; a small one
\* lets streams of a few dozen symbols cross several checkpoints.
kMaxCheckpointInterval == 4

\* The context of the byte at index i after the bytes b1 (last) and b2: one
\* context for the header, then one per pair of byte kinds.
ByteKind1(b) ==
  IF (97 <= b /\ b <= 122) \/ (65 <= b /\ b <= 90) THEN 0
  ELSE IF (48 <= b /\ b <= 57) \/ b = 46 \/ b = 44 THEN 1
  ELSE IF b = 0 THEN 2
  ELSE IF b = 1 THEN 3
  ELSE IF b < 16 THEN 4
  ELSE IF b = 255 THEN 6
  ELSE IF b > 240 THEN 5
  ELSE 7

ByteKind2(b) ==
  IF (97 <= b /\ b <= 122) \/ (65 <= b /\ b <= 90) THEN 0
  ELSE IF (48 <= b /\ b <= 57) \/ b = 46 \/ b = 44 THEN 1
  ELSE IF b < 16 THEN 2
  ELSE IF b > 240 THEN 3
  ELSE 4

ICCANSContext(i, b1, b2) ==
  IF i <= kICCHeaderSize THEN 0 ELSE 1 + ByteKind1(b1) + ByteKind2(b2) * 8

\* U64Coder: a 2-bit selector; 0, 1 + 4 bits, 17 + 8 bits, or 12 bits and
\* then groups of 8 bits each behind a continuation bit (the last group, at
\* shift 60, has 4 bits and no continuation).
RECURSIVE U64CoderReadGroups(_, _, _, _)
U64CoderReadGroups(span, pos, result, shift) ==
  IF ReadBits(span, pos, 1) = 0 THEN [v |-> result, pos |-> pos + 1]
  ELSE IF shift = 60
    THEN [v   |-> U64OrShifted(result, ReadBits(span, pos + 1, 4), shift),
          pos |-> pos + 5]
    ELSE U64CoderReadGroups(span, pos + 9,
           U64OrShifted(result, ReadBits(span, pos + 1, 8), shift), shift + 8)

U64CoderRead(span, pos) ==
  LET selector == ReadBits(span, pos, 2)
  IN  IF selector = 0 THEN [v |-> U64(0), pos |-> pos + 2]
      ELSE IF selector = 1
        THEN [v |-> U64(1 + ReadBits(span, pos + 2, 4)), pos |-> pos + 6]
      ELSE IF selector = 2
        THEN [v |-> U64(17 + ReadBits(span, pos + 2, 8)), pos |-> pos + 10]
      ELSE U64CoderReadGroups(span, pos + 14,
                              U64(ReadBits(span, pos + 2, 12)), 12)

RECURSIVE U64CoderWriteGroups(_)
U64CoderWriteGroups(rest) ==
  IF rest = 0 THEN <<0>>
  ELSE <<1>> \o BitsOf(8, rest % 256) \o U64CoderWriteGroups(rest \div 256)

\* The shortest form of a value below 2^28.
U64CoderWrite(n) ==
  IF n = 0 THEN BitsOf(2, 0)
  ELSE IF n <= 16 THEN BitsOf(2, 1) \o BitsOf(4, n - 1)
  ELSE IF n <= 272 THEN BitsOf(2, 2) \o BitsOf(8, n - 17)
  ELSE BitsOf(2, 3) \o BitsOf(12, n % 4096) \o U64CoderWriteGroups(n \div 4096)

\* ANSSymbolReader::Create(&code, reader): reads the 32-bit state.
ANSSymbolReaderCreate(span, pos) ==
  [state |-> [hi |-> ReadBits(span, pos + 16, 16), lo |-> ReadBits(span, pos, 16)],
   pos   |-> pos + 32]

\* ReadHybridUint(ctx, reader, context_map): one symbol under the histogram
\* of the context; the tokens of an ICC stream carry no raw bits, the value
\* is the symbol.
HybridUint(s) ==
  [value |-> s.symbol, state |-> s.state, pos |-> s.pos, hang |-> s.hang]

ReadHybridUint(state, ctx, cds, m, span, pos) ==
  HybridUint(ReadSymbol(state, cds[m[ctx + 1] + 1], span, pos))

\* PaddedBytes::resize(n): the bytes kept, the new ones zero.
Resize(d, n) == [k \in 1..n |-> IF k <= Len(d) THEN d[k] ELSE 0]

-----------------------------------------------------------------------------
(* The ICCReader: src/lib/jxl/icc_codec.cc, lines 328-415                  *)

\* A new ICCReader.  enc_size is a 64-bit value; the ANS reader is its state.
ICCReaderNew ==
  [enc_size |-> U64(0), bits_to_skip |-> 0, used_bits_base |-> 0, i |-> 0,
   decompressed |-> <<>>, code |-> <<>>, context_map |-> <<>>,
   ans_reader |-> [hi |-> 0, lo |-> 0]]

\* CheckEOI(reader): true when all reads were within bounds.
CheckEOI(span, pos) == AllReadsWithinBounds(span, pos)

\* A call of Init or Process is g = [reader, pos, status, ..]: the fields of
\* the ICCReader, the position of the BitReader, and "run" or the Status
\* returned.
Return(g, status) == [g EXCEPT !.status = status]

\* decompressed_[i_ - k], or 0 when i_ < k.
PreviousByte(r, k) == IF r.i >= k THEN r.decompressed[r.i - k + 1] ELSE 0

\* decompressed_[i_] = s; i_++ for the value s just read.
StoreByte(g, s) ==
  [g EXCEPT !.reader.decompressed[g.reader.i + 1] = s.value % 256,
            !.reader.ans_reader = s.state,
            !.reader.i = g.reader.i + 1,
            !.pos = s.pos,
            !.status = IF s.hang THEN "hang" ELSE g.status]

\* decompressed_[i_] = ans_reader_.ReadHybridUint(ICCANSContext(..), ..); i_++
ReadByte(g, span) ==
  StoreByte(g, ReadHybridUint(g.reader.ans_reader,
                              ICCANSContext(g.reader.i,
                                            PreviousByte(g.reader, 1),
                                            PreviousByte(g.reader, 2)),
                              g.reader.code, g.reader.context_map, span,
                              g.pos))

\* for (; i_ < upto; i_++) ReadByte: up to 2^k iterations.
RECURSIVE InitLoop(_, _, _, _)
InitLoop(g, span, upto, k) ==
  IF g.status # "run" \/ g.reader.i >= upto THEN g
  ELSE IF k = 0 THEN ReadByte(g, span)
  ELSE LET half == InitLoop(g, span, upto, k - 1)
       IN  InitLoop(half, span, upto, k - 1)

EncSize(r) == U64ToNat(r.enc_size)

\* Line 359: bits_to_skip_ = reader->TotalBitsConsumed() - used_bits_base_.
InitDone(g) ==
  IF g.status # "run" THEN g
  ELSE [g EXCEPT !.reader.bits_to_skip = g.pos - g.reader.used_bits_base,
                 !.status = "ok"]

\* Line 357: CheckPreamble returned pre.
InitPreambleChecked(g, pre) ==
  IF pre # "ok" THEN Return(g, pre) ELSE InitDone(g)

\* Lines 356-357, after the loop over the preamble.
InitPreambleRead(g, span) ==
  IF g.status # "run" THEN g
  ELSE IF ~CheckEOI(span, g.pos) THEN Return(g, "NotEnoughBytes")
  ELSE InitPreambleChecked(g, CheckPreamble(g.reader.decompressed,
                                            EncSize(g.reader)))

\* Lines 350-358, after the loop over the first two bytes.
InitFirstRead(g, span) ==
  IF g.status = "run" /\ EncSize(g.reader) > kPreambleSize
    THEN InitPreambleRead(InitLoop(g, span, kPreambleSize,
                                   CeilLog2Nonzero(kPreambleSize)), span)
    ELSE InitDone(g)

\* Lines 340-349: the ANS reader a was created.
InitReaderCreated(r, span, a) ==
  InitFirstRead(
    InitLoop([reader |-> [r EXCEPT !.ans_reader = a.state, !.i = 0,
                                   !.decompressed =
                                     Resize(@, Min(1024, EncSize(r)))],
              pos |-> a.pos, status |-> "run"],
             span, Min(2, EncSize(r)), 1),
    span)

\* Lines 338-340: DecodeHistograms returned d.
InitHistogramsDecoded(r, span, d) ==
  IF ~d.ok
    THEN [reader |-> r, pos |-> d.pos, status |-> "Invalid histogram"]
    ELSE InitReaderCreated([r EXCEPT !.code = d.codes,
                                     !.context_map = d.context_map],
                           span, ANSSymbolReaderCreate(span, d.pos))

\* Lines 333-338: U64Coder::Read returned u.
InitSizeRead(r, span, u) ==
  IF U64Less(U64(268435456), u.v)
    THEN [reader |-> [r EXCEPT !.enc_size = u.v], pos |-> u.pos,
          status |-> "Too large encoded profile"]
    ELSE InitHistogramsDecoded([r EXCEPT !.enc_size = u.v], span,
           DecodeHistograms(span, u.pos, kNumICCContexts, ANS_MAX_ALPHA_SIZE))

\* ICCReader::Init(reader); lines 333-359 read the start of the stream.
ICCReaderInit(r, span, pos) ==
  IF ~CheckEOI(span, pos)
    THEN [reader |-> r, pos |-> pos, status |-> "NotEnoughBytes"]
  ELSE IF r.bits_to_skip = 0
    THEN InitSizeRead([r EXCEPT !.used_bits_base = pos], span,
                      U64CoderRead(span, pos))
    ELSE [reader |-> [r EXCEPT !.used_bits_base = pos],
          pos |-> pos + r.bits_to_skip, status |-> "ok"]

\* A call of Process: the reader, the position of the BitReader, the status
\* ("run" until it returns), the locals checkpoint and saved_i, the bits
\* consumed at the last save(), and *icc.

\* save = [&]() { ans_reader_.Save(checkpoint); bits_to_skip_ = ..; saved_i = i_; }
Save(p) ==
  [p EXCEPT !.checkpoint = p.reader.ans_reader,
            !.reader.bits_to_skip = p.pos - p.reader.used_bits_base,
            !.saved_bits = p.pos - p.reader.used_bits_base,
            !.saved_i = p.reader.i]

\* check_and_restore with the restore left out.
CheckAndRestoreNothing(p, span) ==
  IF CheckEOI(span, p.pos) THEN p
  ELSE [p EXCEPT !.status = "NotEnoughBytes"]

\* check_and_restore = [&]() -> Status { .. }
CheckAndRestore(p, span) ==
  IF CheckEOI(span, p.pos) THEN p
  ELSE [p EXCEPT !.reader.ans_reader = p.checkpoint,
                 !.reader.i = p.saved_i,
                 !.status = "NotEnoughBytes"]

\* The call p after a read: unsaved is the largest number of symbols that
\* were decoded since the last save() at any time of the call.
SymbolDecoded(p) ==
  IF p.reader.i - p.saved_i > p.unsaved
    THEN [p EXCEPT !.unsaved = p.reader.i - p.saved_i]
    ELSE p

\* Lines 397-400: JXL_ENSURE(i_ >= 2) and the read of one byte.
ProcessRead(p, span) ==
  IF p.reader.i < 2 THEN Return(p, "JXL_ENSURE")
  ELSE SymbolDecoded(ReadByte(p, span))

\* Lines 389-396, after save().  i_ > used_bytes * 256 with used_bytes =
\* bits / 8 is i_ > 32 * bits.
ProcessSaved(p, span) ==
  IF p.reader.i % 65536 = 0
     /\ p.reader.i > 32 * (p.pos - p.reader.used_bits_base)
    THEN Return(p, "Corrupted stream")
    ELSE ProcessRead([p EXCEPT !.reader.decompressed =
                        Resize(@, Min(p.reader.i + 1024, EncSize(p.reader)))],
                     span)

\* Lines 387-388, after check_and_restore().
ProcessChecked(p, span) ==
  IF p.status # "run" THEN p ELSE ProcessSaved(Save(p), span)

\* One iteration of the loop of lines 385-401.
ProcessIteration(p, span) ==
  IF p.reader.i % kMaxCheckpointInterval = 0 /\ p.reader.i > 0
    THEN ProcessChecked(CheckAndRestore(p, span), span)
    ELSE ProcessRead(p, span)

\* Lines 408-409: icc->clear(); return UnpredictICC(..), which returned u.
ProcessUnpredicted(p, u) ==
  [p EXCEPT !.icc = u.result,
            !.status = IF u.pc = "ok" THEN "ok" ELSE u.err]

\* The end of Process without the test of the final state.
ProcessLoopDoneUnchecked(p) ==
  IF p.status # "run" THEN p
  ELSE ProcessUnpredicted(
         [p EXCEPT !.reader.bits_to_skip = p.pos - p.reader.used_bits_base],
         UnpredictICC(p.reader.decompressed))

\* Lines 403-409, after the last check_and_restore().
ProcessLoopDone(p) ==
  IF p.status # "run" THEN p
  ELSE IF ~CheckANSFinalState(p.reader.ans_reader)
    THEN [p EXCEPT !.reader.bits_to_skip = p.pos - p.reader.used_bits_base,
                   !.status = "Corrupted ICC profile"]
    ELSE ProcessUnpredicted(
           [p EXCEPT !.reader.bits_to_skip = p.pos - p.reader.used_bits_base],
           UnpredictICC(p.reader.decompressed))

\* One iteration of the loop, or lines 402-409 after it.
ProcessStep(p, span) ==
  IF p.reader.i < EncSize(p.reader) THEN ProcessIteration(p, span)
  ELSE ProcessLoopDone(CheckAndRestore(p, span))

\* Up to 2^k steps, stopping at the return.
RECURSIVE ProcessRun(_, _, _)
ProcessRun(p, span, k) ==
  IF p.status # "run" THEN p
  ELSE IF k = 0 THEN ProcessStep(p, span)
  ELSE LET half == ProcessRun(p, span, k - 1)
       IN  ProcessRun(half, span, k - 1)

\* ICCReader::Process(reader, icc): save() on entry, the loop, the end.  The
\* loop has at most enc_size_ iterations.
ICCReaderProcess(r, span, pos, icc0) ==
  ProcessRun(Save([reader |-> r, pos |-> pos, status |-> "run",
                   checkpoint |-> r.ans_reader, saved_i |-> 0,
                   saved_bits |-> 0, unsaved |-> 0, icc |-> icc0]),
             span, CeilLog2Nonzero(EncSize(r) + 2))

\* The statuses Process returns before or at its final-state check.
kBeforeUnpredict ==
  {"NotEnoughBytes", "Corrupted stream", "JXL_ENSURE", "Corrupted ICC profile",
   "hang"}

-----------------------------------------------------------------------------
(* ICC streams and the caller of the ICCReader                             *)

\* Bounds: the BitReaders a caller makes for one stream, and the bytes of
\* data of the short streams.
MaxSessions == 2
MaxShortData == 4

\* The tokens of the bytes of enc: the byte as the symbol, no raw bits.
ICCTokens(enc) ==
  [k \in 1..Len(enc) |->
     [context |-> ICCANSContext(k - 1, IF k > 1 THEN enc[k - 1] ELSE 0,
                                IF k > 2 THEN enc[k - 2] ELSE 0),
      symbol |-> enc[k], nbits |-> 0, bits |-> 0]]

\* All contexts share one histogram.
ICCContextMap == [c \in 1..kNumICCContexts |-> 0]

\* The histogram over the symbols of S that is as flat as ANS_TAB_SIZE
\* allows: the smallest symbol takes the remainder.
FlatHistogram(S) ==
  LET top   == CHOOSE x \in S : \A y \in S : y <= x
      least == CHOOSE x \in S : \A y \in S : x <= y
      share == ANS_TAB_SIZE \div Cardinality(S)
  IN  [k \in 1..(top + 1) |->
         IF k - 1 = least THEN ANS_TAB_SIZE - share * (Cardinality(S) - 1)
         ELSE IF k - 1 \in S THEN share ELSE 0]

\* The stream before its padding: the encoded size, the histograms, the
\* tokens.
ICCStreamBits(enc_size, enc, h) ==
  U64CoderWrite(enc_size) \o EncodeHistograms(ICCContextMap, <<h>>)
    \o WriteTokens(ICCTokens(enc), <<h>>, ICCContextMap)


\* The data of a stream of n data bytes.
DataPattern(n) == [k \in 1..n |-> (3 * k) % 4]

\* enc of a profile that ends within the header: the declared size n, no
\* commands, n bytes of data.
HeaderEnc(n) == EncOf(n, <<>>, DataPattern(n))

\* The sizes tried: the short ones, and those around kPreambleSize.
ShortSizes == 0..MaxShortData
LongSizes == {kPreambleSize - 2, kPreambleSize - 1, kPreambleSize + 2}

\* The bits the caller's BitReader has consumed before the ICC stream.
Bases == {0, 3}

BytesOf(enc) == {enc[k] : k \in DOMAIN enc}

\* What a stream is made from: the bytes encoded, the encoded size written
\* in front, the histogram, the bits in front of it, and the bit changed
\* (0: none).
Origin(enc, enc_size, h, base, flip) ==
  [enc |-> enc, enc_size |-> enc_size, h |-> h, base |-> base, flip |-> flip]

\* The streams an encoder writes, under the histogram of the bytes used or
\* one that also gives room to the symbol 1.
IntactOrigins ==
  {Origin(HeaderEnc(n), n + 2, FlatHistogram(BytesOf(HeaderEnc(n)) \cup x), b, 0) :
     n \in ShortSizes \cup LongSizes, x \in {{}, {1}}, b \in Bases}

\* The start of a longer stream: the 22 bytes of a preamble that declares 5
\* bytes of output, with an encoded size at, one above and one below the
\* largest the preamble check lets through.
DeclaredOrigins ==
  {Origin(EncOf(5, <<>>, DataPattern(kPreambleSize - 2)), 5 + 65536 + d,
          FlatHistogram({0, 1, 2, 3, 5}), 0, 0) : d \in {-1, 0, 1}}

\* Streams that declare an output of 2^28 bytes (the limit) or one more,
\* in 6, 22 and 24 encoded bytes.
OversizeOrigins ==
  {LET enc == EncOf(Pow2(28) + d, <<>>, DataPattern(m))
   IN  Origin(enc, Len(enc), FlatHistogram(BytesOf(enc)), 0, 0) :
     d \in {0, 1}, m \in {0, kPreambleSize - 6, kPreambleSize - 4}}

\* The intact streams of the sizes in S with one bit changed.
AlteredOrigins(S) ==
  UNION {LET h == FlatHistogram(BytesOf(HeaderEnc(n)) \cup x)
             b == ICCStreamBits(n + 2, HeaderEnc(n), h)
         IN  {Origin(HeaderEnc(n), n + 2, h, 0, f) : f \in 1..Len(b)} :
           n \in S, x \in {{}, {1}}}

\* The input: base bits in front, the stream, its padding; one bit changed.
StreamOf(o) ==
  LET front == [k \in 1..o.base |-> 1]
      bits  == ICCStreamBits(o.enc_size, o.enc, o.h)
  IN  ZeroPadToByte(front \o (IF o.flip = 0 THEN bits
                              ELSE [bits EXCEPT ![o.flip] = 1 - @]))

TotalBytes == Len(iccStream) \div 8

\* The span of the BitReader of this session: the bytes the caller holds.
Span == SubSeq(iccStream, 1, 8 * iccAvail)

NoCheckpoint ==
  [state |-> [hi |-> 0, lo |-> 0], bits |-> 0, i |-> 0, unsaved |-> 0]

NoOrigin == Origin(<<>>, 0, <<>>, 0, 0)

ReaderIdle ==
  /\ iccPc = "idle" /\ iccStream = <<>> /\ iccOrigin = NoOrigin
  /\ iccAvail = 0 /\ iccBr = 0 /\ icc_reader = ICCReaderNew
  /\ iccStatus = "none" /\ decoded_icc = <<>> /\ iccCheckpoint = NoCheckpoint
  /\ iccSession = 0

\* A new ICCReader and the first BitReader, over any prefix of an intact
\* stream or over the whole of an altered or oversize one.
ReaderStart ==
  /\ iccOrigin \in IntactOrigins \cup DeclaredOrigins \cup OversizeOrigins
                   \cup AlteredOrigins(ShortSizes)
  /\ iccStream = StreamOf(iccOrigin)
  /\ iccAvail \in IF iccOrigin.flip = 0 /\ iccOrigin \notin OversizeOrigins
                    THEN 0..(Len(iccStream) \div 8)
                  ELSE {Len(iccStream) \div 8}
  /\ iccPc = "start" /\ iccBr = iccOrigin.base /\ icc_reader = ICCReaderNew
  /\ iccStatus = "none" /\ decoded_icc = <<>> /\ iccCheckpoint = NoCheckpoint
  /\ iccSession = 1

\* Init returned g.
InitReturned(g) ==
  /\ icc_reader' = g.reader
  /\ iccBr' = g.pos
  /\ iccStatus' = g.status
  /\ iccPc' = IF g.status = "ok" THEN "inited" ELSE "init_returned"

\* icc_reader.Init(&br).
ReaderInitCall ==
  /\ iccPc = "start"
  /\ InitReturned(ICCReaderInit(icc_reader, Span, iccBr))
  /\ UNCHANGED <<iccStream, iccOrigin, iccAvail, decoded_icc, iccCheckpoint,
                 iccSession>>
  /\ UNCHANGED otherThanReader

\* Process returned p.
ProcessReturned(p) ==
  /\ icc_reader' = p.reader
  /\ iccBr' = p.pos
  /\ iccStatus' = p.status
  /\ decoded_icc' = p.icc
  /\ iccCheckpoint' = [state |-> p.checkpoint, bits |-> p.saved_bits,
                       i |-> p.saved_i, unsaved |-> p.unsaved]

\* icc_reader.Process(&br, &decoded_icc), after an Init that returned true.
ReaderProcessCall ==
  /\ iccPc = "inited"
  /\ ProcessReturned(ICCReaderProcess(icc_reader, Span, iccBr, decoded_icc))
  /\ iccPc' = "processed"
  /\ UNCHANGED <<iccStream, iccOrigin, iccAvail, iccSession>>
  /\ UNCHANGED otherThanReader

\* After NotEnoughBytes more input arrives, one byte or all the rest; the
\* caller makes a new BitReader over it, at the start of the ICC stream.
ReaderFeedMore ==
  /\ iccPc \in {"init_returned", "processed"}
  /\ iccStatus = "NotEnoughBytes"
  /\ iccSession < MaxSessions
  /\ iccAvail < TotalBytes
  /\ \E n \in {iccAvail + 1, TotalBytes} : iccAvail' = n
  /\ iccBr' = iccOrigin.base
  /\ iccSession' = iccSession + 1
  /\ iccPc' = "start"
  /\ UNCHANGED <<iccStream, iccOrigin, icc_reader, iccStatus, decoded_icc,
                 iccCheckpoint>>
  /\ UNCHANGED otherThanReader


\* Init and Process of a new ICCReader over the whole of a stream.
ProcessReturn(p) == [status |-> p.status, icc |-> p.icc]

OneShotProcess(g, stream) ==
  IF g.status # "ok" THEN [status |-> g.status, icc |-> <<>>]
  ELSE ProcessReturn(ICCReaderProcess(g.reader, stream, g.pos, <<>>))

OneShot(stream, base) ==
  OneShotProcess(ICCReaderInit(ICCReaderNew, stream, base), stream)

\* The bytes passed to UnpredictICC without an ICCReader: those of the
\* streams above, and the stream longer than its output by more than 65536.
DirectStart ==
  /\ unpEnc \in {HeaderEnc(n) : n \in ShortSizes \cup LongSizes} \cup {BombEnc}
                \cup {o.enc : o \in OversizeOrigins}
  /\ unpPc = "call"
  /\ unpState = UnpredictNotCalled

ICCNext ==
  \/ ReaderInitCall
  \/ ReaderProcessCall
  \/ ReaderFeedMore
  \/ UnpredictCall

-----------------------------------------------------------------------------
(* The Lehmer round trip                                                   *)

LehmerIdle ==
  /\ lehPc = "idle" /\ lehN = 0 /\ permutation = <<>> /\ code = <<>>
  /\ lehSrc = <<>>

LehmerInit ==
  \/ \E n \in 1..MaxLehmerN : \E p \in PermutationsOf(n) :
       /\ lehPc = "perm" /\ lehN = n /\ permutation = p /\ code = <<>>
       /\ lehSrc = p
  \/ /\ lehPc = "perm" /\ lehN = Len(ScenarioPermutation)
     /\ permutation = ScenarioPermutation /\ code = <<>>
     /\ lehSrc = ScenarioPermutation
  \/ \E n \in 1..MaxLehmerN : \E c \in LehmerCodes(n) :
       /\ lehPc = "code" /\ lehN = n /\ code = c /\ permutation = <<>>
       /\ lehSrc = c

\* A call of ComputeLehmerCode on the permutation held.
LehmerCompute ==
  /\ lehPc \in {"perm", "decoded"}
  /\ code' = ComputeLehmerCode(permutation, lehN)
  /\ lehPc' = IF lehPc = "perm" THEN "encoded" ELSE "code_done"
  /\ UNCHANGED <<lehN, permutation, lehSrc>>
  /\ UNCHANGED otherThanLehmer

\* A call of DecodeLehmerCode on the code held.
LehmerDecode ==
  /\ lehPc \in {"code", "encoded"}
  /\ permutation' = DecodeLehmerCode(code, lehN)
  /\ lehPc' = IF lehPc = "code" THEN "decoded" ELSE "perm_done"
  /\ UNCHANGED <<lehN, code, lehSrc>>
  /\ UNCHANGED otherThanLehmer

LehmerNext == LehmerCompute \/ LehmerDecode

-----------------------------------------------------------------------------
(* RoundtripTestcase: src/jxl/ans_test.cc                                  *)

kMagic1 == 40499
kMagic2 == 35588

\* n_histograms of the single-symbol round trips; the alphabet of the small
\* random round trip.
kNumContexts == 2
kAlphabetSize == 3

\* Bound of the token vectors: every vector of 0..MaxTokens tokens.
MaxTokens == 3

\* (nbits, bits) of the tokens tried: no raw bits with symbol 0, three with
\* symbol 1 and the full sixteen with symbol 2; the bits differ by context.
RawChoice(c, s) ==
  IF s % 3 = 0 THEN <<0, 0>>
  ELSE IF s % 3 = 1 THEN (IF c = 0 THEN <<3, 5>> ELSE <<3, 2>>)
  ELSE (IF c = 0 THEN <<16, 32769>> ELSE <<16, 65535>>)

TokenChoices ==
  {[context |-> c, symbol |-> s, nbits |-> RawChoice(c, s)[1],
    bits |-> RawChoice(c, s)[2]] :
     c \in 0..(kNumContexts - 1), s \in 0..(kAlphabetSize - 1)}

TokenVectors == UNION {[1..n -> TokenChoices] : n \in 0..MaxTokens}

\* A valid token: context < C, symbol < ANS_MAX_ALPHA_SIZE, nbits <= 16,
\* bits < 2^nbits.
IsValidToken(t) ==
  /\ t.context < kNumContexts /\ t.symbol < ANS_MAX_ALPHA_SIZE
  /\ t.nbits <= 16 /\ t.bits < Pow2(t.nbits)

\* What the encoder may build.  The context map either merges all contexts
\* or keeps one histogram per context; each histogram is normalised to
\* ANS_TAB_SIZE and is non-zero exactly on the symbols its contexts use.
FreqChoices == {0, 1, 1365, 1366, 2048, 4094, 4095, 4096}

ContextMapChoices ==
  {[i \in 1..kNumContexts |-> 0], [i \in 1..kNumContexts |-> i - 1]}

SymbolsOfHistogram(tokens, m, k) ==
  {tokens[i].symbol :
     i \in {j \in DOMAIN tokens : m[tokens[j].context + 1] = k}}

NormalizedHistograms(S) ==
  IF S = {} THEN {[i \in 1..kAlphabetSize |-> 0]}
  ELSE {h \in [1..kAlphabetSize -> FreqChoices] :
          Support(h) = S /\ SeqSum(h) = ANS_TAB_SIZE}

CodeChoices(tokens, m) ==
  LET K == NumHistograms(m)
  IN  {cds \in [1..K -> UNION {NormalizedHistograms(S) :
                                 S \in SUBSET (0..(kAlphabetSize - 1))}] :
         \A k \in 1..K :
           cds[k] \in NormalizedHistograms(SymbolsOfHistogram(tokens, m, k - 1))}

AnsIdle ==
  /\ ansPc = "idle" /\ input_values = <<>> /\ writer = <<>>
  /\ context_map = <<>> /\ codes = <<>> /\ encOrder = <<>>
  /\ encEmitted = <<>> /\ bodyEnd = 0 /\ br = 0 /\ dec_context_map = <<>>
  /\ decoded_codes = <<>> /\ reader = kANSFinalState /\ decoded = <<>>
  /\ decPulled = <<>> /\ finalOk = FALSE

AnsInit ==
  /\ input_values \in TokenVectors
  /\ ansPc = "start" /\ writer = <<>>
  /\ context_map = <<>> /\ codes = <<>> /\ encOrder = <<>>
  /\ encEmitted = <<>> /\ bodyEnd = 0 /\ br = 0 /\ dec_context_map = <<>>
  /\ decoded_codes = <<>> /\ reader = kANSFinalState /\ decoded = <<>>
  /\ decPulled = <<>> /\ finalOk = FALSE

\* writer.Write(16, kMagic1) inside its allotment.
WriteMagic1 ==
  /\ ansPc = "start"
  /\ writer' = writer \o BitsOf(16, kMagic1)
  /\ ansPc' = "magic1_written"
  /\ UNCHANGED <<input_values, context_map, codes, encOrder, encEmitted,
                 bodyEnd, br, dec_context_map, decoded_codes, reader, decoded,
                 decPulled, finalOk>>
  /\ UNCHANGED otherThanAns

\* BuildAndEncodeHistograms(HistogramParams(), n_histograms, ..).
BuildAndEncodeHistograms ==
  /\ ansPc = "magic1_written"
  /\ \E m \in ContextMapChoices : \E cds \in CodeChoices(input_values, m) :
       /\ context_map' = m
       /\ codes' = cds
       /\ writer' = writer \o EncodeHistograms(m, cds)
  /\ ansPc' = "histograms_written"
  /\ UNCHANGED <<input_values, encOrder, encEmitted, bodyEnd, br,
                 dec_context_map, decoded_codes, reader, decoded, decPulled,
                 finalOk>>
  /\ UNCHANGED otherThanAns

\* WriteTokens followed by padding to the byte boundary.
WriteTokensCallPadded ==
  /\ ansPc = "histograms_written"
  /\ LET e == EncodeTokens(input_values, codes, context_map)
     IN  /\ encOrder' = e.order
         /\ encEmitted' = e.emitted
  /\ bodyEnd' = Len(writer \o WriteTokens(input_values, codes, context_map))
  /\ writer' =
       ZeroPadToByte(writer \o WriteTokens(input_values, codes, context_map))
  /\ ansPc' = "tokens_written"
  /\ UNCHANGED <<input_values, context_map, codes, br, dec_context_map,
                 decoded_codes, reader, decoded, decPulled, finalOk>>
  /\ UNCHANGED otherThanAns


\* WriteTokens(input_values_vec[0], codes, context_map, &writer, ..).
WriteTokensCall ==
  /\ ansPc = "histograms_written"
  /\ LET e == EncodeTokens(input_values, codes, context_map)
     IN  /\ encOrder' = e.order
         /\ encEmitted' = e.emitted
  /\ writer' = writer \o WriteTokens(input_values, codes, context_map)
  /\ bodyEnd' = Len(writer')
  /\ ansPc' = "tokens_written"
  /\ UNCHANGED <<input_values, context_map, codes, br, dec_context_map,
                 decoded_codes, reader, decoded, decPulled, finalOk>>
  /\ UNCHANGED otherThanAns

\* writer.Write(16, kMagic2); writer.ZeroPadToByte().
WriteMagic2 ==
  /\ ansPc = "tokens_written"
  /\ writer' = ZeroPadToByte(writer \o BitsOf(16, kMagic2))
  /\ ansPc' = "written"
  /\ UNCHANGED <<input_values, context_map, codes, encOrder, encEmitted,
                 bodyEnd, br, dec_context_map, decoded_codes, reader, decoded,
                 decPulled, finalOk>>
  /\ UNCHANGED otherThanAns

\* BitReader br(writer.GetSpan()); ASSERT_EQ(br.ReadBits(16), kMagic1).
ReadMagic1 ==
  /\ ansPc = "written"
  /\ br' = 16
  /\ ansPc' = IF ReadBits(writer, 0, 16) = kMagic1 THEN "magic1_read"
              ELSE "fail_magic1"
  /\ UNCHANGED <<input_values, writer, context_map, codes, encOrder,
                 encEmitted, bodyEnd, dec_context_map, decoded_codes, reader,
                 decoded, decPulled, finalOk>>
  /\ UNCHANGED otherThanAns

\* ASSERT_TRUE(DecodeHistograms(&br, n_histograms, ANS_MAX_ALPHA_SIZE, ..));
\* ASSERT_EQ(dec_context_map, context_map).
DecodeHistogramsCall ==
  /\ ansPc = "magic1_read"
  /\ LET d == DecodeHistograms(writer, br, kNumContexts, ANS_MAX_ALPHA_SIZE)
     IN  /\ br' = d.pos
         /\ dec_context_map' = d.context_map
         /\ decoded_codes' = d.codes
         /\ ansPc' = IF ~d.ok THEN "fail_histograms"
                     ELSE IF d.context_map # context_map
                       THEN "fail_context_map"
                       ELSE "histograms_read"
  /\ UNCHANGED <<input_values, writer, context_map, codes, encOrder,
                 encEmitted, bodyEnd, reader, decoded, decPulled, finalOk>>
  /\ UNCHANGED otherThanAns

\* The constructor with the two halves of the state taken in the wrong order.
CreateReaderSwapped ==
  /\ ansPc = "histograms_read"
  /\ reader' = [hi |-> ReadBits(writer, br, 16),
                lo |-> ReadBits(writer, br + 16, 16)]
  /\ br' = br + 32
  /\ ansPc' = "reading"
  /\ UNCHANGED <<input_values, writer, context_map, codes, encOrder,
                 encEmitted, bodyEnd, dec_context_map, decoded_codes, decoded,
                 decPulled, finalOk>>
  /\ UNCHANGED otherThanAns

\* ANSSymbolReader reader(&decoded_codes, &br): reads the 32-bit state.
CreateReader ==
  /\ ansPc = "histograms_read"
  /\ reader' = [hi |-> ReadBits(writer, br + 16, 16),
                lo |-> ReadBits(writer, br, 16)]
  /\ br' = br + 32
  /\ ansPc' = "reading"
  /\ UNCHANGED <<input_values, writer, context_map, codes, encOrder,
                 encEmitted, bodyEnd, dec_context_map, decoded_codes, decoded,
                 decPulled, finalOk>>
  /\ UNCHANGED otherThanAns

\* The loop body with the raw bits read before the symbol.
ReadTokenBitsFirst ==
  /\ ansPc = "reading"
  /\ Len(decoded) < Len(input_values)
  /\ LET symbol == input_values[Len(decoded) + 1]
         bits   == ReadBits(writer, br, symbol.nbits)
         r      == ReadSymbol(reader,
                     decoded_codes[dec_context_map[symbol.context + 1] + 1],
                     writer, br + symbol.nbits)
     IN  /\ reader' = r.state
         /\ br' = r.pos
         /\ decPulled' = decPulled \o r.pulled
         /\ decoded' = Append(decoded, [symbol |-> r.symbol, bits |-> bits])
         /\ ansPc' = IF r.hang THEN "hang"
                     ELSE IF r.symbol # symbol.symbol THEN "fail_symbol"
                     ELSE IF bits # symbol.bits THEN "fail_bits"
                     ELSE "reading"
  /\ UNCHANGED <<input_values, writer, context_map, codes, encOrder,
                 encEmitted, bodyEnd, dec_context_map, decoded_codes, finalOk>>
  /\ UNCHANGED otherThanAns

\* The loop walked from the last token to the first.
ReadTokenBackwards ==
  /\ ansPc = "reading"
  /\ Len(decoded) < Len(input_values)
  /\ LET symbol == input_values[Len(input_values) - Len(decoded)]
         r      == ReadSymbol(reader,
                     decoded_codes[dec_context_map[symbol.context + 1] + 1],
                     writer, br)
         bits   == ReadBits(writer, r.pos, symbol.nbits)
     IN  /\ reader' = r.state
         /\ br' = r.pos + symbol.nbits
         /\ decPulled' = decPulled \o r.pulled
         /\ decoded' = Append(decoded, [symbol |-> r.symbol, bits |-> bits])
         /\ ansPc' = IF r.hang THEN "hang"
                     ELSE IF r.symbol # symbol.symbol THEN "fail_symbol"
                     ELSE IF bits # symbol.bits THEN "fail_bits"
                     ELSE "reading"
  /\ UNCHANGED <<input_values, writer, context_map, codes, encOrder,
                 encEmitted, bodyEnd, dec_context_map, decoded_codes, finalOk>>
  /\ UNCHANGED otherThanAns

\* One iteration of the loop over input_values:
\*   read_symbol = reader.ReadSymbol(dec_context_map[symbol.context], &br);
\*   ASSERT_EQ(read_symbol, symbol.symbol);
\*   ASSERT_EQ(br.ReadBits(symbol.nbits), symbol.bits).
ReadToken ==
  /\ ansPc = "reading"
  /\ Len(decoded) < Len(input_values)
  /\ LET symbol == input_values[Len(decoded) + 1]
         r      == ReadSymbol(reader,
                     decoded_codes[dec_context_map[symbol.context + 1] + 1],
                     writer, br)
         bits   == ReadBits(writer, r.pos, symbol.nbits)
     IN  /\ reader' = r.state
         /\ br' = r.pos + symbol.nbits
         /\ decPulled' = decPulled \o r.pulled
         /\ decoded' = Append(decoded, [symbol |-> r.symbol, bits |-> bits])
         /\ ansPc' = IF r.hang THEN "hang"
                     ELSE IF r.symbol # symbol.symbol THEN "fail_symbol"
                     ELSE IF bits # symbol.bits THEN "fail_bits"
                     ELSE "reading"
  /\ UNCHANGED <<input_values, writer, context_map, codes, encOrder,
                 encEmitted, bodyEnd, dec_context_map, decoded_codes, finalOk>>
  /\ UNCHANGED otherThanAns

\* ASSERT_TRUE(reader.CheckANSFinalState()), after the loop.
CheckFinalState ==
  /\ ansPc = "reading"
  /\ Len(decoded) = Len(input_values)
  /\ finalOk' = CheckANSFinalState(reader)
  /\ ansPc' = IF finalOk' THEN "final_checked" ELSE "fail_final"
  /\ UNCHANGED <<input_values, writer, context_map, codes, encOrder,
                 encEmitted, bodyEnd, br, dec_context_map, decoded_codes,
                 reader, decoded, decPulled>>
  /\ UNCHANGED otherThanAns

\* ASSERT_EQ(br.ReadBits(16), kMagic2); EXPECT_TRUE(br.Close()).
ReadMagic2AndClose ==
  /\ ansPc = "final_checked"
  /\ br' = br + 16
  /\ ansPc' = IF ReadBits(writer, br, 16) # kMagic2 THEN "fail_magic2"
              ELSE IF ~AllReadsWithinBounds(writer, br') THEN "fail_close"
              ELSE "passed"
  /\ UNCHANGED <<input_values, writer, context_map, codes, encOrder,
                 encEmitted, bodyEnd, dec_context_map, decoded_codes, reader,
                 decoded, decPulled, finalOk>>
  /\ UNCHANGED otherThanAns

AnsNext ==
  \/ WriteMagic1
  \/ BuildAndEncodeHistograms
  \/ WriteTokensCall
  \/ WriteMagic2
  \/ ReadMagic1
  \/ DecodeHistogramsCall
  \/ CreateReader
  \/ ReadToken
  \/ CheckFinalState
  \/ ReadMagic2AndClose

-----------------------------------------------------------------------------
(* A BitWriter and a BitReader used on their own (spec 4.1), as             *)
(* RoundtripTestcase uses them around the ANS body                          *)

\* Bounds: the number of write calls and of read, peek and skip calls.
MaxWrites == 2
MaxReads == 2

\* Bit k (0-based) of a 64-bit value.
U64Bit(v, k) == (v[(k \div 16) + 1] \div Pow2(k % 16)) % 2

\* write(n, bits) of a value wider than 16 bits: its low n bits, least
\* significant first.
BitsOfU64(n, v) == [k \in 1..n |-> U64Bit(v, k - 1)]

\* read(n) for n up to 56: the n bits from pos on as a 64-bit value.
ReadBitsU64(span, pos, n) ==
  [j \in 1..4 |->
     LET rest == n - 16 * (j - 1)
     IN  ReadBits(span, pos + 16 * (j - 1),
                  IF rest < 0 THEN 0 ELSE Min(16, rest))]

BitWriterNew == [bits |-> <<>>, cap |-> 0, allotment |-> <<>>, log |-> <<>>,
                 reclaims |-> 0]

BitReaderNew == [pos |-> 0, got |-> <<>>, peeked |-> <<>>, calls |-> 0,
                 everOut |-> FALSE, closes |-> 0, closeResult |-> TRUE]

\* reserve(n): BitWriter::Allotment allotment(&writer, n).
Reserve(w, n) ==
  [w EXCEPT !.allotment = <<[prev_bits_written |-> Len(w.bits),
                             max_bits |-> n]>>,
            !.cap = Len(w.bits) + n]

\* The allotment's use counted in whole bytes instead of bits.
UsedBitsInBytes(w) ==
  (Len(w.bits) - w.allotment[1].prev_bits_written) \div 8


\* The bits written since the allotment was reserved.
UsedBits(w) == Len(w.bits) - w.allotment[1].prev_bits_written

\* reclaim(n_used): ReclaimAndCharge(&writer, &allotment, ..); the unused
\* tail of the allotment is released.
Reclaim(w) ==
  [w EXCEPT !.allotment = <<>>, !.cap = Len(w.bits), !.reclaims = @ + 1]

\* The sizes reserved, the sizes written and read, the sizes peeked and
\* skipped, the values written.
AllotmentSizes == {16, 24, 64}
BitCounts == {3, 16, 56}
PeekCounts == {3, 16}
WrittenValues == {<<kMagic1, 65535, 32769, 65535>>, <<kMagic2, 0, 1, 32896>>}

BitIOIdle ==
  bioPc = "idle" /\ bioW = BitWriterNew /\ bioR = BitReaderNew

BitIOInit ==
  bioPc = "writing" /\ bioW = BitWriterNew /\ bioR = BitReaderNew

\* BitWriter::Allotment allotment(&writer, n); one allotment per write at
\* most is tried.
BitWriterReserve ==
  /\ bioPc = "writing" /\ bioW.allotment = <<>>
  /\ bioW.reclaims < MaxWrites
  /\ \E n \in AllotmentSizes : bioW' = Reserve(bioW, n)
  /\ UNCHANGED <<bioPc, bioR>>
  /\ UNCHANGED otherThanBitIO

\* writer.Write(n, bits), inside the allotment.
BitWriterWrite ==
  /\ bioPc = "writing" /\ bioW.allotment # <<>>
  /\ Len(bioW.log) < MaxWrites
  /\ \E n \in BitCounts : \E v \in WrittenValues :
       bioW' = [bioW EXCEPT
                  !.bits = @ \o BitsOfU64(n, v),
                  !.log = Append(@, [n |-> n, bits |-> v,
                                     at |-> Len(bioW.bits)])]
  /\ UNCHANGED <<bioPc, bioR>>
  /\ UNCHANGED otherThanBitIO

\* writer.ZeroPadToByte(), inside the allotment.
BitWriterZeroPad ==
  /\ bioPc = "writing" /\ bioW.allotment # <<>>
  /\ bioW' = [bioW EXCEPT !.bits = ZeroPadToByte(@)]
  /\ UNCHANGED <<bioPc, bioR>>
  /\ UNCHANGED otherThanBitIO

\* ReclaimAndCharge: aborts when more bits were written than reserved.
BitWriterReclaim ==
  /\ bioPc = "writing" /\ bioW.allotment # <<>>
  /\ IF UsedBits(bioW) > bioW.allotment[1].max_bits
       THEN bioPc' = "aborted" /\ bioW' = bioW
       ELSE bioPc' = bioPc /\ bioW' = Reclaim(bioW)
  /\ UNCHANGED bioR
  /\ UNCHANGED otherThanBitIO

\* BitReader br(writer.GetSpan()): the span is whole bytes.
BitReaderOpen ==
  /\ bioPc = "writing" /\ bioW.allotment = <<>>
  /\ Len(bioW.bits) % 8 = 0
  /\ bioPc' = "reading"
  /\ UNCHANGED <<bioW, bioR>>
  /\ UNCHANGED otherThanBitIO

\* br.ReadBits(n).
BitReaderRead ==
  /\ bioPc = "reading" /\ bioR.calls < MaxReads
  /\ \E n \in BitCounts :
       bioR' = [bioR EXCEPT
                  !.got = Append(@, [n |-> n, at |-> bioR.pos,
                                     bits |-> ReadBitsU64(bioW.bits,
                                                          bioR.pos, n)]),
                  !.pos = @ + n,
                  !.calls = @ + 1,
                  !.everOut = @ \/ bioR.pos + n > Len(bioW.bits)]
  /\ UNCHANGED <<bioPc, bioW>>
  /\ UNCHANGED otherThanBitIO

\* br.PeekBits(n): as a read, the position stays.
BitReaderPeek ==
  /\ bioPc = "reading" /\ bioR.calls < MaxReads
  /\ \E n \in PeekCounts :
       bioR' = [bioR EXCEPT
                  !.peeked = <<[n |-> n, at |-> bioR.pos,
                                bits |-> ReadBitsU64(bioW.bits, bioR.pos,
                                                     n)]>>,
                  !.calls = @ + 1]
  /\ UNCHANGED <<bioPc, bioW>>
  /\ UNCHANGED otherThanBitIO

\* br.SkipBits(n): the position advances, nothing is decoded.
BitReaderSkip ==
  /\ bioPc = "reading" /\ bioR.calls < MaxReads
  /\ \E n \in PeekCounts :
       bioR' = [bioR EXCEPT
                  !.pos = @ + n,
                  !.calls = @ + 1,
                  !.everOut = @ \/ bioR.pos + n > Len(bioW.bits)]
  /\ UNCHANGED <<bioPc, bioW>>
  /\ UNCHANGED otherThanBitIO

\* br.Close(): whether all reads were in range.
BitReaderClose ==
  /\ bioPc = "reading"
  /\ bioR' = [bioR EXCEPT
                !.closes = @ + 1,
                !.closeResult = AllReadsWithinBounds(bioW.bits, bioR.pos)]
  /\ bioPc' = "closed"
  /\ UNCHANGED bioW
  /\ UNCHANGED otherThanBitIO

BitIONext ==
  \/ BitWriterReserve
  \/ BitWriterWrite
  \/ BitWriterZeroPad
  \/ BitWriterReclaim
  \/ BitReaderOpen
  \/ BitReaderRead
  \/ BitReaderPeek
  \/ BitReaderSkip
  \/ BitReaderClose

-----------------------------------------------------------------------------
(* DecodeFile: src/jxl/dec_file.cc, and DoTestOneInput:                    *)
(* src/tools/transforms_fuzzer.cc; what they do with their BitReader       *)

\* Bound: the number of frames a file holds.
MaxFrames == 2

DecodeFileNotCalled ==
  [fn |-> "none", have_icc |-> FALSE, have_animation |-> FALSE,
   check_decompressed_size |-> FALSE, reader |-> "none", inRange |-> TRUE,
   frames |-> 0, closes |-> 0, closeResult |-> TRUE, ret |-> TRUE,
   result |-> "none"]

DecodeFileIdle == dfPc = "idle" /\ df = DecodeFileNotCalled

\* The inputs: the function called, and what the headers and the decoding
\* parameters say.
DecodeFileInit ==
  /\ dfPc = "start"
  /\ \E fn \in {"DecodeFile", "DoTestOneInput"} :
     \E icc \in BOOLEAN, anim \in BOOLEAN, check \in BOOLEAN :
       /\ fn = "DoTestOneInput" => ~icc /\ ~anim /\ ~check
       /\ df = [DecodeFileNotCalled EXCEPT
                  !.fn = fn, !.have_icc = icc, !.have_animation = anim,
                  !.check_decompressed_size = check]

\* A call that read from the reader: its reads either stayed in range or not.
AfterReads(d, within) == [d EXCEPT !.inRange = @ /\ within]

\* BitReaderScopedCloser reader_closer(&reader, &ret), when its scope ends:
\* the reader is closed and a failed Close is recorded in ret.
ScopedClose(d) ==
  [d EXCEPT !.reader = "closed", !.closes = @ + 1, !.closeResult = d.inRange,
            !.ret = IF d.inRange THEN @ ELSE FALSE]

\* An early return that leaves the reader open.
ReturnErrorOpen(d) == [d EXCEPT !.result = "false"]

\* JXL_RETURN_IF_ERROR inside the scope of reader_closer: the scope ends and
\* the error is returned.
ReturnError(d) == [ScopedClose(d) EXCEPT !.result = "false"]

\* Lines 104-121: the signature; no reader exists on these paths.
DecodeFileSignature ==
  /\ dfPc = "start" /\ df.fn = "DecodeFile"
  /\ \E signature \in {"BRUNSLI", "JPEGXL", "INVALID"} :
     \E ok \in BOOLEAN, flexible \in BOOLEAN :
       IF signature = "BRUNSLI"
         THEN /\ df' = [df EXCEPT !.result = IF ok THEN "true" ELSE "false"]
              /\ dfPc' = "returned"
       ELSE IF signature # "JPEGXL" \/ flexible
         THEN df' = [df EXCEPT !.result = "false"] /\ dfPc' = "returned"
         ELSE df' = df /\ dfPc' = "construct"
  /\ UNCHANGED otherThanDecodeFile

\* Lines 122-126: Status ret = true; BitReader reader(file);
\* BitReaderScopedCloser reader_closer(&reader, &ret); the marker is read.
DecodeFileConstruct ==
  /\ dfPc = "construct"
  /\ df' = [df EXCEPT !.reader = "open", !.ret = TRUE]
  /\ dfPc' = "headers"
  /\ UNCHANGED otherThanDecodeFile

\* Lines 128-133: DecodeHeaders and VerifyDimensions.
DecodeFileHeaders ==
  /\ dfPc = "headers"
  /\ \E within \in BOOLEAN, ok \in BOOLEAN :
       IF ok THEN df' = AfterReads(df, within) /\ dfPc' = "color"
       ELSE df' = ReturnError(AfterReads(df, within)) /\ dfPc' = "returned"
  /\ UNCHANGED otherThanDecodeFile

\* Lines 135-143: ReadICC and SetProfile, or CreateProfile.
DecodeFileColor ==
  /\ dfPc = "color"
  /\ \E within \in BOOLEAN, ok \in BOOLEAN :
       /\ ~df.have_icc => within
       /\ IF ok THEN df' = AfterReads(df, within) /\ dfPc' = "preview"
          ELSE df' = ReturnError(AfterReads(df, within))
               /\ dfPc' = "returned"
  /\ UNCHANGED otherThanDecodeFile

\* Lines 145-149: DecodePreview and reader.JumpToByteBoundary().
DecodeFilePreview ==
  /\ dfPc = "preview"
  /\ \E within \in BOOLEAN, ok \in BOOLEAN :
       IF ok THEN df' = AfterReads(df, within) /\ dfPc' = "frames"
       ELSE df' = ReturnError(AfterReads(df, within)) /\ dfPc' = "returned"
  /\ UNCHANGED otherThanDecodeFile

\* Lines 151-181: one DecodeFrame of the loops.  A file holds at most
\* MaxFrames frames; DecodeFrame on what follows them fails.
DecodeFileFrame ==
  /\ dfPc = "frames"
  /\ \E within \in BOOLEAN, ok \in BOOLEAN :
     \E IsDisplayed \in BOOLEAN, is_last \in BOOLEAN :
       IF ok /\ df.frames < MaxFrames
         THEN /\ df' = [AfterReads(df, within) EXCEPT !.frames = @ + 1]
              /\ dfPc' = IF ~IsDisplayed \/ (df.have_animation /\ ~is_last)
                           THEN "frames" ELSE "size_check"
         ELSE /\ df' = ReturnError(AfterReads(df, within))
              /\ dfPc' = "returned"
  /\ UNCHANGED otherThanDecodeFile

\* Lines 183-192: the position check, the end of the reader's scope and
\* return ret.
DecodeFileEnd ==
  /\ dfPc = "size_check"
  /\ \E at_eof \in BOOLEAN :
       IF df.check_decompressed_size /\ ~at_eof
         THEN df' = ReturnError(df)
         ELSE LET d == ScopedClose(df)
              IN  df' = [d EXCEPT !.result = IF d.ret THEN "true" ELSE "false"]
  /\ dfPc' = "returned"
  /\ UNCHANGED otherThanDecodeFile

\* transforms_fuzzer.cc lines 181-187: inputs under 15 bytes return at once;
\* otherwise the reader and its closer are made.
DoTestOneInputStart ==
  /\ dfPc = "start" /\ df.fn = "DoTestOneInput"
  /\ \E short \in BOOLEAN :
       IF short THEN df' = [df EXCEPT !.result = "0"] /\ dfPc' = "returned"
       ELSE df' = [df EXCEPT !.reader = "open"] /\ dfPc' = "run"
  /\ UNCHANGED otherThanDecodeFile

\* Line 188: Run(reader, memory_manager.get()).
DoTestOneInputRun ==
  /\ dfPc = "run"
  /\ \E within \in BOOLEAN : df' = AfterReads(df, within)
  /\ dfPc' = "run_done"
  /\ UNCHANGED otherThanDecodeFile

\* Lines 189-192: the scope of the reader ends; return 0.
DoTestOneInputEnd ==
  /\ dfPc = "run_done"
  /\ df' = [ScopedClose(df) EXCEPT !.result = "0"]
  /\ dfPc' = "returned"
  /\ UNCHANGED otherThanDecodeFile

DecodeFileNext ==
  \/ DecodeFileSignature
  \/ DecodeFileConstruct
  \/ DecodeFileHeaders
  \/ DecodeFileColor
  \/ DecodeFilePreview
  \/ DecodeFileFrame
  \/ DecodeFileEnd
  \/ DoTestOneInputStart
  \/ DoTestOneInputRun
  \/ DoTestOneInputEnd

-----------------------------------------------------------------------------

(* The context map written by BuildAndEncodeHistograms and read back by    *)
(* DecodeHistograms: src/jxl/ans_test.cc, spec 4.4                         *)

\* Bound: the number of contexts of the maps tried in full.
MaxContexts == 3

\* The largest number of histograms an encoder may emit.
kMaxHistograms == 256

ContextMapNotBuilt ==
  [n_contexts |-> 0, context_map |-> <<>>, perm |-> <<>>, codes |-> <<>>,
   bits |-> <<>>, ok |-> FALSE, dec_context_map |-> <<>>, num_histograms |-> 0]

ContextMapIdle == cmPc = "idle" /\ cm = ContextMapNotBuilt

\* What a clustering may give: every map of n contexts onto 0..K-1.
ClusteredMaps(n) ==
  {m \in [1..n -> 0..(n - 1)] :
     \A k \in 0..(NumHistograms(m) - 1) : \E i \in 1..n : m[i] = k}

\* Maps with the most histograms allowed, over as many and over more contexts.
WideMaps ==
  {[i \in 1..kMaxHistograms |-> kMaxHistograms - i],
   [i \in 1..(kMaxHistograms + 4) |-> (7 * i) % kMaxHistograms]}

\* The initial Move-To-Front lists an encoder may pick for K histograms:
\* none (<<>>), or a permutation of 0..K-1 (tried for the small maps).
InitialLists(K) ==
  IF K = 1 \/ K > MaxContexts + 1 THEN {<<>>}
  ELSE {<<>>} \cup PermutationsOf(K)

\* The histogram of cluster k: empty for a cluster no token uses, else all
\* of the mass on one symbol.
ClusterHistogram(k) ==
  IF k % 2 = 0 THEN <<>>
  ELSE [i \in 1..((k % 3) + 1) |->
          IF i = (k % 3) + 1 THEN ANS_TAB_SIZE ELSE 0]

ContextMapInit ==
  /\ cmPc = "built"
  /\ \E n \in 1..MaxContexts :
     \E m \in ClusteredMaps(n) \cup WideMaps :
     \E perm \in InitialLists(NumHistograms(m)) :
       cm = [ContextMapNotBuilt EXCEPT
               !.n_contexts = Len(m), !.context_map = m, !.perm = perm,
               !.codes = [k \in 1..NumHistograms(m) |-> ClusterHistogram(k)]]

\* BuildAndEncodeHistograms(.., &codes, &context_map, &writer, ..): the
\* number of histograms, the context map and the histograms are written.
ContextMapEncode ==
  /\ cmPc = "built"
  /\ cm' = [cm EXCEPT
              !.bits = EncodeHistogramsPermuted(cm.context_map, cm.codes,
                                                cm.perm)]
  /\ cmPc' = "written"
  /\ UNCHANGED otherThanContextMap

\* DecodeHistograms(&br, n_histograms, ANS_MAX_ALPHA_SIZE, &decoded_codes,
\* &dec_context_map).
ContextMapDecode ==
  /\ cmPc = "written"
  /\ LET d == DecodeHistograms(cm.bits, 0, cm.n_contexts, ANS_MAX_ALPHA_SIZE)
     IN  cm' = [cm EXCEPT !.ok = d.ok, !.dec_context_map = d.context_map,
                          !.num_histograms = Len(d.codes)]
  /\ cmPc' = "read"
  /\ UNCHANGED otherThanContextMap

ContextMapNext == ContextMapEncode \/ ContextMapDecode

-----------------------------------------------------------------------------

(* The ANS encoder coding symbols one after the other (spec 4.3)           *)

\* Bound: the number of symbols coded in a row.
MaxSteps == 2

\* Nothing read back yet.
NoSymbolRead ==
  [symbol |-> 0, state |-> kANSFinalState, pos |-> 0, pulled |-> <<>>,
   hang |-> FALSE]

PutSymbolNotCalled ==
  [prev |-> kANSFinalState, state |-> kANSFinalState, freq |-> 0,
   start |-> 0, chunks |-> <<>>, steps |-> 0,
   stated |-> [state |-> kANSFinalState, chunks |-> <<>>,
               overflow |-> FALSE],
   h |-> <<>>, symbol |-> 0, read |-> NoSymbolRead]

PutSymbolIdle == putPc = "idle" /\ put = PutSymbolNotCalled

\* States over the whole range 2^16 .. 2^32 - 1, and the symbols coded: the
\* frequency and the cumulative start of each (start + freq <= 4096).
StartStates ==
  {[hi |-> h, lo |-> l] :
     h \in {1, 15, 16, 19, 2047, 2048, 32768, 65535}, l \in {0, 65535}}

EncSymbols ==
  {<<1, 0>>, <<1, 4095>>, <<2, 5>>, <<16, 0>>, <<1365, 1365>>,
   <<2048, 2048>>, <<4095, 1>>, <<4096, 0>>}

\* A histogram over ANS_TAB_SIZE slots in which the symbol of frequency freq
\* has the cumulative start given, and the index of that symbol in it; the
\* other symbols take the slots before and after (none when there is none
\* left: a symbol of frequency zero).
EncHistogram(sym) ==
  IF sym[2] = 0 THEN <<sym[1], ANS_TAB_SIZE - sym[1]>>
  ELSE <<sym[2], sym[1], ANS_TAB_SIZE - sym[2] - sym[1]>>

EncIndex(sym) == IF sym[2] = 0 THEN 0 ELSE 1

PutSymbolInit ==
  /\ putPc = "encoding"
  /\ \E s \in StartStates : put = [PutSymbolNotCalled EXCEPT !.state = s]

\* One symbol is coded from the state reached.
PutSymbolCall ==
  /\ putPc = "encoding" /\ put.steps < MaxSteps
  /\ \E sym \in EncSymbols :
       LET h == EncHistogram(sym)
           e == PutSymbol(put.state, HistogramFreq(h, EncIndex(sym)),
                          HistogramStart(h, EncIndex(sym)))
       IN  put' = [prev |-> put.state, state |-> e.state, freq |-> sym[1],
                   start |-> sym[2], chunks |-> e.chunks,
                   steps |-> put.steps + 1,
                   stated |-> PutSymbolShift(put.state, sym[1], sym[2]),
                   h |-> h, symbol |-> EncIndex(sym), read |-> NoSymbolRead]
  /\ putPc' = "coded"
  /\ UNCHANGED otherThanPutSymbol

\* The chunks the step emitted as the reader meets them: the last emitted
\* first, 16 bits each.
ChunkSpan(chunks) ==
  Flatten([k \in 1..Len(chunks) |-> BitsOf(16, Reverse(chunks)[k])])

\* The decode step is applied to the state the encode step left.
PutSymbolRead ==
  /\ putPc = "coded"
  /\ put' = [put EXCEPT
               !.read = ReadSymbol(put.state, put.h, ChunkSpan(put.chunks), 0)]
  /\ putPc' = "encoding"
  /\ UNCHANGED otherThanPutSymbol

PutSymbolNext == PutSymbolCall \/ PutSymbolRead

-----------------------------------------------------------------------------

(* ThreadParallelRunner (src/jxl/threads/thread_parallel_runner.cc)        *)

\* uint32_t values are kept as two 16-bit halves, v = hi * 2^16 + lo, and
\* the arithmetic on them is modulo 2^32 as in the code.
U32(n) == [hi |-> n \div 65536, lo |-> n % 65536]

\* 2^32 - k for 1 <= k <= 65536.
U32Top(k) == [hi |-> 65535, lo |-> 65536 - k]

U32Add(a, b) ==
  [hi |-> (a.hi + b.hi + (a.lo + b.lo) \div 65536) % 65536,
   lo |-> (a.lo + b.lo) % 65536]

U32Sub(a, b) ==
  [hi |-> (a.hi - b.hi - (IF a.lo < b.lo THEN 1 ELSE 0)) % 65536,
   lo |-> (a.lo - b.lo) % 65536]

U32Less(a, b) == a.hi < b.hi \/ (a.hi = b.hi /\ a.lo < b.lo)

U32Min(a, b) == IF U32Less(b, a) THEN b ELSE a

\* a / d for a divisor 1 <= d <= 2^15.
U32Div(a, d) ==
  LET t == (a.hi % d) * 65536 + a.lo
  IN  [hi |-> a.hi \div d, lo |-> t \div d]

\* The tasks of [b, e), for the ranges of a few tasks the model counts over.
RECURSIVE TasksOf(_, _)
TasksOf(b, e) ==
  IF ~U32Less(b, e) THEN {} ELSE {b} \cup TasksOf(U32Add(b, U32(1)), e)

\* The reserved commands; every other command is a range (begin << 32) + end.
kWorkerWait == [kind |-> "wait", begin |-> U32(0), end |-> U32(0)]
kWorkerOnce == [kind |-> "once", begin |-> U32(0), end |-> U32(0)]
kWorkerExit == [kind |-> "exit", begin |-> U32(0), end |-> U32(0)]

WorkerCommand(start_range, end_range) ==
  [kind |-> "range", begin |-> start_range, end |-> end_range]

\* RunRange, the guided schedule: from the value of num_reserved_ loaded,
\* my_size = max((num_tasks - num_reserved) / (num_worker_threads * 4), 1).
MySize(command, num_worker_threads, num_reserved) ==
  LET num_tasks     == U32Sub(command.end, command.begin)
      num_remaining == U32Sub(num_tasks, num_reserved)
      q             == U32Div(num_remaining, num_worker_threads * 4)
  IN  IF q = U32(0) THEN U32(1) ELSE q

\* my_begin = begin + (the value fetch_add returned).
MyBegin(command, reserved) == U32Add(command.begin, reserved)

\* my_end = min(my_begin + my_size, begin + num_tasks).
MyEnd(command, my_begin, my_size) ==
  U32Min(U32Add(my_begin, my_size),
         U32Add(command.begin, U32Sub(command.end, command.begin)))


\* Bounds: the Runner calls made in all, the wakeups of a worker out of
\* worker_start_cv_.wait that no notify caused, and the chunks of tasks
\* outside the range of the command from which func returns.
MaxCalls == 2
MaxSpurious == 1
MaxStray == 1

\* The threads a pool can have: num_worker_threads is 0, 1 or 2.
Workers == {0, 1}

\* The arguments of a Runner call, <<start_range, end_range, what init
\* returns>>: an empty and a reversed range (init is not called), two tasks,
\* two tasks with a failing init, and two tasks ending at 2^32 - 1.
RunnerArgs ==
  {<<U32(0), U32(0), 0>>, <<U32(1), U32(0), 0>>, <<U32(0), U32(2), 0>>,
   <<U32(0), U32(2), 7>>, <<U32Top(3), U32Top(1), 0>>}

\* What a run of the pool is exposed to besides the scheduling of its
\* threads: Runner calls with any of the arguments, or calls with two tasks
\* and either a task that calls Runner or a wakeup no notify caused.
Scenarios == {"args", "nested", "spurious"}

ArgsOf(scenario) ==
  IF scenario = "args" THEN RunnerArgs ELSE {<<U32(0), U32(2), 0>>}

NoWorker ==
  [pc |-> "none", command |-> kWorkerWait, num_reserved |-> U32(0),
   my_size |-> U32(0), my_begin |-> U32(0), my_end |-> U32(0), func |-> 0]

NoCaller == [pc |-> "none", call |-> 0, command |-> kWorkerWait,
             after |-> "none"]

NoInvocations == [f \in {} |-> 0]

PoolNotBuilt ==
  [num_worker_threads |-> 0, scenario |-> "none", phase |-> "none",
   depth_ |-> 0,
   num_reserved_ |-> U32(0), worker_start_command_ |-> kWorkerWait,
   workers_ready_ |-> 0, data_func_ |-> 0, notified |-> {},
   log |-> NoInvocations,
   runs |-> <<>>, spurious |-> 0, strays |-> 0]

PoolIdle ==
  /\ pool = PoolNotBuilt
  /\ thr = [main |-> NoCaller, worker |-> [w \in Workers |-> NoWorker]]

\* The constructor has set worker_start_command_ = kWorkerWait and made the
\* threads, each at the top of ThreadFunc; it is about to wait for them
\* (no wait without worker threads).  main is the thread that constructs the
\* pool, calls Runner and destroys the pool.  The wakeups no notify caused
\* are followed on a pool of one worker.
PoolInit ==
  \E n \in 0..Cardinality(Workers), sc \in Scenarios :
    /\ n = 0 => sc = "args"
    /\ sc = "spurious" => n = 1
    /\ pool = [PoolNotBuilt EXCEPT !.num_worker_threads = n,
                                   !.scenario = sc, !.phase = "ctor"]
    /\ thr = [main |-> [NoCaller EXCEPT
                          !.pc = IF n = 0 THEN "once" ELSE "barrier",
                          !.after = "once"],
              worker |-> [w \in Workers |->
                 IF w < n THEN [NoWorker EXCEPT !.pc = "top"]
                 ELSE NoWorker]]

\* func(task, thread) is called for the tasks of [begin, end), with
\* the function func: data_func_ as it is at the call, 0 for the function
\* the constructor runs on each thread.
Invocation(func, begin, end, thread) ==
  [func |-> func, begin |-> begin, end |-> end, thread |-> thread]

\* The log of the pool counts the times each invocation was made.
Logged(log, inv) ==
  [i \in DOMAIN log \cup {inv} |->
     IF i \in DOMAIN log THEN log[i] + (IF i = inv THEN 1 ELSE 0) ELSE 1]

\* threads_.size() and num_threads_ = max(num_worker_threads, 1).
NumThreads == IF pool.num_worker_threads = 0 THEN 1
              ELSE pool.num_worker_threads

WorkerStep(w, rec) == thr' = [thr EXCEPT !.worker[w] = rec]
MainStep(rec) == thr' = [thr EXCEPT !.main = rec]

\* What a worker does with the command it reads once it holds the lock
\* again: wait again, leave the loop, or unlock and run.
Woken(w, command) ==
  [thr.worker[w] EXCEPT
     !.pc = CASE command.kind = "wait" -> "waiting"
              [] command.kind = "once" -> "once"
              [] command.kind = "exit" -> "exited"
              [] OTHER -> "load",
     !.command = command]

\* ThreadFunc, top of the loop: under the lock ++workers_ready_ (the main
\* thread is notified when it reaches num_threads_), then
\* worker_start_cv_.wait releases the lock.
ThreadReady(w) ==
  /\ thr.worker[w].pc = "top"
  /\ pool' = [pool EXCEPT !.workers_ready_ = @ + 1]
  /\ WorkerStep(w, [thr.worker[w] EXCEPT !.pc = "waiting"])
  /\ UNCHANGED otherThanPool

\* wait returns after a notify_all: the lock is held, the command is read.
ThreadWake(w) ==
  /\ thr.worker[w].pc = "waiting" /\ w \in pool.notified
  /\ pool' = [pool EXCEPT !.notified = @ \ {w}]
  /\ WorkerStep(w, Woken(w, pool.worker_start_command_))
  /\ UNCHANGED otherThanPool

\* wait returns with no notify (a spurious wakeup).  With kWorkerWait as
\* the command the worker waits again and nothing has changed.
ThreadSpuriousWake(w) ==
  /\ thr.worker[w].pc = "waiting" /\ w \notin pool.notified
  /\ pool.worker_start_command_ # kWorkerWait
  /\ pool.scenario = "spurious" /\ pool.spurious < MaxSpurious
  /\ pool' = [pool EXCEPT !.spurious = @ + 1]
  /\ WorkerStep(w, Woken(w, pool.worker_start_command_))
  /\ UNCHANGED otherThanPool

\* case kWorkerOnce: data_func_(thread, thread).
ThreadOnce(w) ==
  /\ thr.worker[w].pc = "once"
  /\ pool' = [pool EXCEPT
       !.log = Logged(@, Invocation(pool.data_func_, U32(w), U32(w + 1), w))]
  /\ WorkerStep(w, [thr.worker[w] EXCEPT !.pc = "top"])
  /\ UNCHANGED otherThanPool

\* RunRange: num_reserved_.load and my_size.
RunRangeLoad(w) ==
  /\ thr.worker[w].pc = "load"
  /\ WorkerStep(w, [thr.worker[w] EXCEPT
       !.pc = "reserve",
       !.num_reserved = pool.num_reserved_,
       !.my_size = MySize(thr.worker[w].command, pool.num_worker_threads,
                          pool.num_reserved_)])
  /\ UNCHANGED pool
  /\ UNCHANGED otherThanPool

\* RunRange: num_reserved_.fetch_add(my_size), my_begin, my_end; the loop is
\* left when my_begin >= my_end, else the tasks of [my_begin, my_end) start.
RunRangeReserve(w) ==
  LET me       == thr.worker[w]
      my_begin == MyBegin(me.command, pool.num_reserved_)
      my_end   == MyEnd(me.command, my_begin, me.my_size)
      break    == ~U32Less(my_begin, my_end)
  IN  /\ me.pc = "reserve"
      /\ pool' = [pool EXCEPT
           !.num_reserved_ = U32Add(@, me.my_size),
           !.log = IF break THEN @
                   ELSE Logged(@, Invocation(pool.data_func_, my_begin,
                                             my_end, w))]
      /\ WorkerStep(w, [me EXCEPT !.pc = IF break THEN "top" ELSE "tasks",
                                  !.my_begin = my_begin, !.my_end = my_end,
                                  !.func = pool.data_func_])
      /\ UNCHANGED otherThanPool

\* The chunk [my_begin, my_end) a worker runs has a task outside the range
\* [begin, end) of its command.
Stray(me) ==
  \/ U32Less(me.my_begin, me.command.begin)
  \/ U32Less(me.command.end, me.my_end)

\* RunRange: the tasks of [my_begin, my_end) have returned.  func is the
\* caller's and is made for the tasks of the range: called with another
\* task it may return or not.
RunRangeTasks(w) ==
  /\ thr.worker[w].pc = "tasks"
  /\ Stray(thr.worker[w]) => pool.strays < MaxStray
  /\ WorkerStep(w, [thr.worker[w] EXCEPT !.pc = "load"])
  /\ pool' = [pool EXCEPT
       !.strays = IF Stray(thr.worker[w]) THEN @ + 1 ELSE @]
  /\ UNCHANGED otherThanPool


\* A Runner call: who made it, its arguments (init_ret is what init returns
\* when called), whether init was called, whether the call found depth_ at 0
\* and went on (entered), and once it has returned (done) the value ret.
RunnerCalled(caller, start_range, end_range, init_ret) ==
  [caller |-> caller, start_range |-> start_range, end_range |-> end_range,
   init_ret |-> init_ret, init_called |-> FALSE, entered |-> FALSE,
   done |-> FALSE, ret |-> 0]

\* The calls of the pool made by a task, and those made by main.
NestedCalls == {k \in DOMAIN pool.runs : pool.runs[k].caller = "task"}
MainCalls == DOMAIN pool.runs \ NestedCalls

\* Runner with the check of what init returned left out.
RunnerPathInitIgnored(start_range, end_range, init_ret, num_worker_threads) ==
  IF U32Less(end_range, start_range) THEN "reversed"
  ELSE IF start_range = end_range THEN "empty"
  ELSE IF num_worker_threads = 0 THEN "seq"
  ELSE "depth"

\* Where Runner goes: return -1 when start_range > end_range, return 0 when
\* they are equal, return what init returned when it is not 0, else the
\* sequential run without worker threads, else the depth test.
RunnerPath(start_range, end_range, init_ret, num_worker_threads) ==
  IF U32Less(end_range, start_range) THEN "reversed"
  ELSE IF start_range = end_range THEN "empty"
  ELSE IF init_ret # 0 THEN "init_failed"
  ELSE IF num_worker_threads = 0 THEN "seq"
  ELSE "depth"

\* Runner up to the choice between the sequential run and the workers:
\* the two tests of the range, then init(opaque, max(num_worker_threads, 1)).
Runner ==
  /\ pool.phase = "live" /\ thr.main.pc = "idle"
  /\ Cardinality(MainCalls) < MaxCalls
  /\ \E r \in ArgsOf(pool.scenario) :
       LET k    == Len(pool.runs) + 1
           i    == r[3]
           run  == RunnerCalled("main", r[1], r[2], i)
           init == [run EXCEPT !.init_called = TRUE]
           ret(u, v) == [u EXCEPT !.done = TRUE, !.ret = v]
           goes(u, pc) ==
             /\ pool' = [pool EXCEPT !.runs = Append(@, u)]
             /\ MainStep([thr.main EXCEPT
                                 !.pc = pc, !.call = k,
                                 !.command = WorkerCommand(r[1], r[2])])
           path == RunnerPath(r[1], r[2], i, pool.num_worker_threads)
       IN  CASE path = "reversed" -> goes(ret(run, -1), "idle")
             [] path = "empty" -> goes(ret(run, 0), "idle")
             [] path = "init_failed" -> goes(ret(init, i), "idle")
             [] OTHER -> goes(init, path)
  /\ UNCHANGED otherThanPool

\* The sequential run: func(opaque, task, 0) for each task, return 0.
RunnerSequential ==
  LET me  == thr.main
      run == pool.runs[me.call]
  IN  /\ me.pc = "seq"
      /\ pool' = [pool EXCEPT
           !.log = Logged(@, Invocation(me.call, run.start_range,
                                        run.end_range, 0)),
           !.runs[me.call] = [run EXCEPT !.done = TRUE, !.ret = 0]]
      /\ MainStep([me EXCEPT !.pc = "idle"])
      /\ UNCHANGED otherThanPool

\* A task calls Runner on the pool that runs it, with two tasks and an init
\* that returns 0, while the call of main waits for the workers: init, then
\* depth_.fetch_add(1) != 0 and return -1.  One task of a pool does so.
RunnerNested(w) ==
  /\ thr.worker[w].pc = "tasks"
  /\ thr.main.pc \in {"start", "notify", "barrier"}
  /\ pool.scenario = "nested" /\ NestedCalls = {}
  /\ pool.depth_ # 0
  /\ pool' = [pool EXCEPT
       !.depth_ = @ + 1,
       !.runs = Append(@, [RunnerCalled("task", U32(0), U32(2), 0) EXCEPT
                             !.init_called = TRUE, !.done = TRUE,
                             !.ret = -1])]
  /\ UNCHANGED thr
  /\ UNCHANGED otherThanPool

\* depth_.fetch_add(1) != 0: return -1.
RunnerEnter ==
  LET me  == thr.main
      run == pool.runs[me.call]
  IN  /\ me.pc = "depth"
      /\ IF pool.depth_ # 0
           THEN /\ pool' = [pool EXCEPT
                     !.depth_ = @ + 1,
                     !.runs[me.call] = [run EXCEPT !.done = TRUE,
                                                   !.ret = -1]]
                /\ MainStep([me EXCEPT !.pc = "idle"])
           ELSE /\ pool' = [pool EXCEPT
                     !.depth_ = @ + 1,
                     !.runs[me.call] = [run EXCEPT !.entered = TRUE]]
                /\ MainStep([me EXCEPT !.pc = "setup"])
      /\ UNCHANGED otherThanPool

\* data_func_ = func; jpegxl_opaque_ = opaque; num_reserved_.store(0).
RunnerSetup ==
  /\ thr.main.pc = "setup"
  /\ pool' = [pool EXCEPT !.data_func_ = thr.main.call,
                          !.num_reserved_ = U32(0)]
  /\ MainStep([thr.main EXCEPT !.pc = "start",
                                         !.after = "undepth"])
  /\ UNCHANGED otherThanPool

\* StartWorkers(command): worker_start_command_ = command under the lock.
StartWorkers ==
  /\ thr.main.pc = "start"
  /\ pool' = [pool EXCEPT
                !.worker_start_command_ = thr.main.command]
  /\ MainStep([thr.main EXCEPT !.pc = "notify"])
  /\ UNCHANGED otherThanPool

\* StartWorkers: worker_start_cv_.notify_all() once the lock is released;
\* the threads inside wait are woken.  The destructor joins next, the other
\* callers wait for the workers.
NotifyAll ==
  /\ thr.main.pc = "notify"
  /\ pool' = [pool EXCEPT
       !.notified = @ \cup {w \in Workers : thr.worker[w].pc = "waiting"}]
  /\ MainStep([thr.main EXCEPT
       !.pc = IF thr.main.command = kWorkerExit THEN "join"
              ELSE "barrier"])
  /\ UNCHANGED otherThanPool

\* WorkersReadyBarrier: under the lock, once workers_ready_ is
\* threads_.size(): workers_ready_ = 0, worker_start_command_ = kWorkerWait.
WorkersReadyBarrier ==
  /\ thr.main.pc = "barrier"
  /\ pool.workers_ready_ = NumThreads
  /\ pool' = [pool EXCEPT
       !.workers_ready_ = 0,
       !.worker_start_command_ = kWorkerWait,
       !.phase = IF thr.main.after = "idle" THEN "live" ELSE @]
  /\ MainStep([thr.main EXCEPT !.pc = thr.main.after])
  /\ UNCHANGED otherThanPool

\* depth_.fetch_add(-1) != 1: return -1; else return 0.
RunnerLeave ==
  LET me  == thr.main
      run == pool.runs[me.call]
  IN  /\ me.pc = "undepth"
      /\ pool' = [pool EXCEPT
           !.depth_ = @ - 1,
           !.runs[me.call] =
             [run EXCEPT !.done = TRUE,
                         !.ret = IF pool.depth_ # 1 THEN -1 ELSE 0]]
      /\ MainStep([me EXCEPT !.pc = "idle"])
      /\ UNCHANGED otherThanPool

\* The constructor's RunOnEachThread: the function is called once on each
\* thread, by the caller itself when there is no worker.
RunOnEachThread ==
  /\ thr.main.pc = "once"
  /\ IF pool.num_worker_threads = 0
       THEN /\ pool' = [pool EXCEPT
                 !.log = Logged(@, Invocation(0, U32(0), U32(1), 0)),
                 !.phase = "live"]
            /\ MainStep([thr.main EXCEPT !.pc = "idle"])
       ELSE /\ pool' = [pool EXCEPT !.data_func_ = 0]
            /\ MainStep([thr.main EXCEPT
                 !.pc = "start", !.command = kWorkerOnce, !.after = "idle"])
  /\ UNCHANGED otherThanPool

\* The destructor, with no Runner call in progress:
\* StartWorkers(kWorkerExit) when there are workers.
Destructor ==
  /\ pool.phase = "live" /\ thr.main.pc = "idle"
  /\ pool' = [pool EXCEPT !.phase = "dtor"]
  /\ MainStep([thr.main EXCEPT
       !.pc = IF pool.num_worker_threads = 0 THEN "join" ELSE "start",
       !.command = kWorkerExit])
  /\ UNCHANGED otherThanPool

\* The destructor: thread.join() for each thread.
Join ==
  /\ thr.main.pc = "join"
  /\ \A w \in Workers : thr.worker[w].pc \in {"none", "exited"}
  /\ pool' = [pool EXCEPT !.phase = "destroyed"]
  /\ MainStep([thr.main EXCEPT !.pc = "destroyed"])
  /\ UNCHANGED otherThanPool

WorkerNext(w) ==
  \/ ThreadReady(w)
  \/ ThreadWake(w)
  \/ ThreadSpuriousWake(w)
  \/ ThreadOnce(w)
  \/ RunRangeLoad(w)
  \/ RunRangeReserve(w)
  \/ RunRangeTasks(w)
  \/ RunnerNested(w)

MainNext ==
  \/ Runner
  \/ RunnerSequential
  \/ RunnerEnter
  \/ RunnerSetup
  \/ StartWorkers
  \/ NotifyAll
  \/ WorkersReadyBarrier
  \/ RunnerLeave
  \/ RunOnEachThread
  \/ Destructor
  \/ Join

PoolNext ==
  \/ \E w \in Workers : WorkerNext(w)
  \/ MainNext

-----------------------------------------------------------------------------

(* Specifications                                                          *)

InitLehmer ==
  LehmerInit /\ AnsIdle /\ UnpredictIdle /\ ReaderIdle /\ BitIOIdle
    /\ DecodeFileIdle /\ ContextMapIdle
    /\ PutSymbolIdle /\ PoolIdle

SpecLehmer == InitLehmer /\ [][LehmerNext]_vars

InitAns ==
  AnsInit /\ LehmerIdle /\ UnpredictIdle /\ ReaderIdle /\ BitIOIdle
    /\ DecodeFileIdle /\ ContextMapIdle
    /\ PutSymbolIdle /\ PoolIdle

SpecAns == InitAns /\ [][AnsNext]_vars

InitUnpredict ==
  UnpredictInit /\ LehmerIdle /\ AnsIdle /\ ReaderIdle /\ BitIOIdle
    /\ DecodeFileIdle /\ ContextMapIdle
    /\ PutSymbolIdle /\ PoolIdle

SpecUnpredict == InitUnpredict /\ [][UnpredictNext]_vars

InitVarInt ==
  DecodeVarIntStart /\ LehmerIdle /\ AnsIdle /\ ReaderIdle /\ BitIOIdle
    /\ DecodeFileIdle /\ ContextMapIdle
    /\ PutSymbolIdle /\ PoolIdle

SpecVarInt == InitVarInt /\ [][DecodeVarIntCall]_vars

\* The ICC decoder either behind an ICCReader or called directly.
InitICC ==
  /\ LehmerIdle /\ AnsIdle /\ BitIOIdle /\ DecodeFileIdle /\ ContextMapIdle
    /\ PutSymbolIdle /\ PoolIdle
  /\ \/ ReaderStart /\ UnpredictIdle
     \/ DirectStart /\ ReaderIdle

SpecICC == InitICC /\ [][ICCNext]_vars

\* A BitWriter written and then read back.
InitBitIO ==
  BitIOInit /\ LehmerIdle /\ AnsIdle /\ UnpredictIdle /\ ReaderIdle
    /\ DecodeFileIdle /\ ContextMapIdle
    /\ PutSymbolIdle /\ PoolIdle

SpecBitIO == InitBitIO /\ [][BitIONext]_vars

\* A context map written and read back.
InitContextMap ==
  ContextMapInit /\ LehmerIdle /\ AnsIdle /\ UnpredictIdle /\ ReaderIdle
    /\ BitIOIdle /\ DecodeFileIdle /\ PutSymbolIdle /\ PoolIdle

SpecContextMap == InitContextMap /\ [][ContextMapNext]_vars

\* The encoder coding up to MaxSteps symbols from any state in range.
InitPutSymbol ==
  PutSymbolInit /\ LehmerIdle /\ AnsIdle /\ UnpredictIdle /\ ReaderIdle
    /\ BitIOIdle /\ DecodeFileIdle /\ ContextMapIdle /\ PoolIdle

SpecPutSymbol == InitPutSymbol /\ [][PutSymbolNext]_vars

\* A pool of 0, 1 or 2 worker threads from its construction to its
\* destruction, with up to MaxCalls Runner calls.
InitPool ==
  PoolInit /\ LehmerIdle /\ AnsIdle /\ UnpredictIdle /\ ReaderIdle
    /\ BitIOIdle /\ DecodeFileIdle /\ ContextMapIdle /\ PutSymbolIdle

SpecPool == InitPool /\ [][PoolNext]_vars

\* The same under fair scheduling: a thread that can take a step of the code
\* it is in takes it in the end, and a task called with a task of its range
\* returns.  Whether Runner or the destructor is called, whether a task
\* calls Runner and whether a wait returns without a notify is left open.
WorkerRuns(w) ==
  \/ ThreadReady(w)
  \/ ThreadWake(w)
  \/ ThreadOnce(w)
  \/ RunRangeLoad(w)
  \/ RunRangeReserve(w)
  \/ RunRangeTasks(w)

MainRuns ==
  \/ RunnerSequential
  \/ RunnerEnter
  \/ RunnerSetup
  \/ StartWorkers
  \/ NotifyAll
  \/ WorkersReadyBarrier
  \/ RunnerLeave
  \/ RunOnEachThread
  \/ Join

SpecPoolFair ==
  /\ InitPool /\ [][PoolNext]_vars
  /\ WF_vars(MainRuns)
  /\ \A w \in Workers : WF_vars(WorkerRuns(w))

\* DecodeFile or DoTestOneInput called once; the call runs on until it
\* returns.
InitDecodeFile ==
  DecodeFileInit /\ LehmerIdle /\ AnsIdle /\ UnpredictIdle /\ ReaderIdle
    /\ BitIOIdle /\ ContextMapIdle
    /\ PutSymbolIdle /\ PoolIdle

SpecDecodeFile ==
  InitDecodeFile /\ [][DecodeFileNext]_vars /\ WF_vars(DecodeFileNext)

-----------------------------------------------------------------------------
(* Claims about the ICCReader                                              *)

\* The input is a stream as an encoder writes it: the encoding of a
\* profile, no bit changed, the encoded size in front the number of bytes.
Intact == iccOrigin \in IntactOrigins

Altered == iccOrigin.flip # 0

WholeInput == iccAvail = TotalBytes

\* Init or Process has returned in this session.
SessionOver == iccPc \in {"init_returned", "processed"}

\* Process got past its final-state check.
PassedFinalStateCheck ==
  iccPc = "processed" /\ iccStatus \notin kBeforeUnpredict

\* output_size, the first VarInt of the decoded bytes.
DeclaredSize ==
  DecodeVarInt(icc_reader.decompressed, Len(icc_reader.decompressed), 0).ret

\* enc_size > osize + 65536
LongerThanAllowed(osize, enc_size) ==
  U64Less(U64Add(osize, U64(65536)), enc_size)

\* C3 as stated: after decoding the expected number of symbols, the ANS
\* final-state check passes if and only if the stream is not truncated or
\* corrupted.  Here for one Init and one Process over the whole of the
\* input: the check passes exactly for the intact streams.
C3_FinalStateIffIntact ==
  (iccPc = "processed" /\ iccSession = 1 /\ WholeInput
     /\ (Intact \/ Altered))
    => (PassedFinalStateCheck <=> Intact)

\* C3, amended: an intact stream decoded by one Init and one Process over
\* the whole input passes the final-state check; the check passes only in
\* the state 0x130000; and Process never reaches it after a read past the
\* end of the input: it returns NotEnoughBytes.
C3_FinalStateCheck ==
  iccPc = "processed" =>
    /\ (Intact /\ iccSession = 1 /\ WholeInput) =>
          /\ iccStatus = "ok"
          /\ icc_reader.i = Len(iccOrigin.enc)
          /\ CheckANSFinalState(icc_reader.ans_reader)
    /\ PassedFinalStateCheck => CheckANSFinalState(icc_reader.ans_reader)
    /\ iccStatus = "Corrupted ICC profile" =>
          ~CheckANSFinalState(icc_reader.ans_reader)
    /\ ~AllReadsWithinBounds(Span, iccBr) =>
          iccStatus \in {"NotEnoughBytes", "hang"}

\* An intact stream of more than kPreambleSize bytes passed the check.
C3_Witness ==
  /\ iccPc = "processed" /\ Intact /\ iccSession = 1 /\ WholeInput
  /\ Len(iccOrigin.enc) > kPreambleSize
  /\ iccStatus = "ok" /\ CheckANSFinalState(icc_reader.ans_reader)

\* C5 as stated: for every truncation point of a valid ICC stream, Init
\* then Process on the truncated input returns NotEnoughBytes, and Init and
\* Process again on the full input complete successfully and produce
\* exactly the bytes a one-shot decode of the full input produces.  Stated
\* for the calls of Process that return: the first, on the truncated input,
\* and the second, on the full input after the first asked for more.
C5_TruncateThenResume ==
  (Intact /\ iccPc = "processed" /\ iccStatus # "hang") =>
    /\ (iccSession = 1 /\ ~WholeInput) => iccStatus = "NotEnoughBytes"
    /\ (iccSession = 2 /\ WholeInput) =>
          /\ iccStatus = "ok"
          /\ decoded_icc = OneShot(iccStream, iccOrigin.base).icc

\* C7: when Process finds the bit reader out of bounds it returns
\* NotEnoughBytes with the ANS reader, i_ and bits_to_skip_ as the last
\* checkpoint recorded them; the next Init skips exactly bits_to_skip_ bits
\* and leaves the ANS reader and i_ as they are.
C7_RestoreAndResume ==
  /\ (iccPc = "processed" /\ iccStatus # "hang"
        /\ ~AllReadsWithinBounds(Span, iccBr)) =>
        iccStatus = "NotEnoughBytes"
  /\ (iccPc = "processed" /\ iccStatus = "NotEnoughBytes") =>
        /\ ~AllReadsWithinBounds(Span, iccBr)
        /\ icc_reader.ans_reader = iccCheckpoint.state
        /\ icc_reader.i = iccCheckpoint.i
        /\ icc_reader.bits_to_skip = iccCheckpoint.bits
  /\ (iccPc = "inited" /\ iccSession > 1 /\ iccCheckpoint # NoCheckpoint) =>
        /\ icc_reader.used_bits_base = iccOrigin.base
        /\ iccBr = icc_reader.used_bits_base + iccCheckpoint.bits
        /\ icc_reader.bits_to_skip = iccCheckpoint.bits
        /\ icc_reader.ans_reader = iccCheckpoint.state
        /\ icc_reader.i = iccCheckpoint.i

\* Process read past a checkpoint inside its loop, ran out of input and went
\* back to it.
C7_Witness ==
  /\ Intact /\ iccPc = "processed" /\ iccStatus = "NotEnoughBytes"
  /\ iccCheckpoint.i > 2 /\ iccCheckpoint.i % kMaxCheckpointInterval = 0
  /\ icc_reader.i = iccCheckpoint.i
  /\ iccBr > icc_reader.used_bits_base + icc_reader.bits_to_skip

\* C11: no ICC decode succeeds with a declared output size above 2^28: a
\* stream of more than kPreambleSize bytes is rejected by Init with "Decoded
\* ICC is too large" exactly when its first VarInt is above 2^28, and no
\* Process and no UnpredictICC returns success on such a stream.
C11_OutputSizeCap ==
  /\ (iccPc = "processed" /\ iccStatus = "ok") =>
        ~U64Less(U64(Pow2(28)), DeclaredSize)
  /\ (iccPc \in {"inited", "init_returned"}
        /\ iccStatus \in {"ok", "Decoded ICC is too large"}
        /\ EncSize(icc_reader) > kPreambleSize) =>
        (iccStatus = "Decoded ICC is too large"
           <=> U64Less(U64(Pow2(28)), DeclaredSize))
  /\ (unpPc = "returned" /\ unpState.pc = "ok") =>
        ~U64Less(U64(Pow2(28)), unpState.osize)

\* Init rejected a stream of 24 bytes that declares 2^28 + 1 bytes.
C11_Witness ==
  /\ iccPc = "init_returned" /\ iccStatus = "Decoded ICC is too large"
  /\ DeclaredSize = U64(Pow2(28) + 1)
  /\ EncSize(icc_reader) = kPreambleSize + 2

\* C10 as stated: every ICC decode that succeeds, through the ICCReader or
\* by UnpredictICC called directly, has an encoded size that exceeds the
\* declared output size by at most 65536 bytes.
C10_EveryDecodeBounded ==
  /\ (iccPc = "processed" /\ iccStatus = "ok") =>
        ~LongerThanAllowed(DeclaredSize, icc_reader.enc_size)
  /\ (unpPc = "returned" /\ unpState.pc = "ok") =>
        ~LongerThanAllowed(unpState.osize, U64(Len(unpEnc)))

\* C10, amended: a decode through the ICCReader that succeeds has an
\* encoded size of at most the declared size + 65536; for a stream of more
\* than kPreambleSize bytes Init returns "Malformed ICC" exactly when the
\* encoded size is larger than that; UnpredictICC called directly makes no
\* such check and decodes the stream that is longer.
C10_ReaderBounded ==
  /\ (iccPc = "processed" /\ iccStatus = "ok") =>
        ~LongerThanAllowed(DeclaredSize, icc_reader.enc_size)
  /\ (iccPc \in {"inited", "init_returned"}
        /\ iccStatus \in {"ok", "Malformed ICC", "Decoded ICC is too large"}
        /\ EncSize(icc_reader) > kPreambleSize) =>
        (iccStatus = "Malformed ICC"
           <=> LongerThanAllowed(DeclaredSize, icc_reader.enc_size))
  /\ (unpPc = "returned" /\ unpEnc = BombEnc) =>
        /\ unpState.pc = "ok"
        /\ LongerThanAllowed(unpState.osize, U64(Len(unpEnc)))

\* Init rejected a stream one byte longer than the bound allows.
C10_Witness ==
  /\ iccPc = "init_returned" /\ iccStatus = "Malformed ICC"
  /\ icc_reader.enc_size = U64Add(U64Add(DeclaredSize, U64(65536)), U64(1))

-----------------------------------------------------------------------------
(* Claims about UnpredictICC                                               *)

\* The three conditions of a valid end: the output has the declared size,
\* the commands are used up, the data is used up.
UnpredictExact ==
  /\ U64(Len(unpState.result)) = unpState.osize
  /\ unpState.cpos = unpState.commands_end
  /\ unpState.pos = Len(unpEnc)

\* C6: whenever UnpredictICC returns success the output holds exactly osize
\* bytes, the command position is the end of the command stream and the data
\* position is the end of the input; a call that ends with one of the three
\* not holding returns a failure.
C6_SuccessIsExact ==
  unpPc \in {"returned", "done"} =>
    /\ unpState.pc \in {"ok", "fail"}
    /\ unpState.pc = "ok" => UnpredictExact
    /\ ~UnpredictExact => unpState.pc = "fail"

\* A success past the header: commands were run and data was inserted.
C6_Witness ==
  /\ unpPc = "done" /\ unpState.pc = "ok"
  /\ Len(unpState.result) > kICCHeaderSize + 4
  /\ unpState.commands_end - 3 >= 3
  /\ unpState.pos > unpState.commands_end + kICCHeaderSize
  /\ UnpredictExact

\* The bytes of input from pos on that belong to one VarInt: up to and
\* with the first byte without the continuation bit (0: there is none).
RECURSIVE VarIntLength(_, _)
VarIntLength(input, pos) ==
  IF pos >= Len(input) THEN 0
  ELSE IF input[pos + 1] < 128 THEN 1
  ELSE LET rest == VarIntLength(input, pos + 1)
       IN  IF rest = 0 THEN 0 ELSE rest + 1

\* The value of the n bytes from pos on, 7 bits a byte, the low ones first.
RECURSIVE VarIntValue(_, _, _)
VarIntValue(input, pos, n) ==
  IF n = 0 THEN U64(0)
  ELSE U64MulAdd(VarIntValue(input, pos + 1, n - 1), 128,
                 U64(input[pos + 1] % 128)).v

\* C13 as stated: DecodeVarInt returns the value of the unsigned LEB128
\* integer at pos and advances pos by exactly the bytes that belong to it,
\* never by more than 10 and never past the end of the input.
C13_VarIntAdvance ==
  unpPc = "varint_done" =>
    LET n == VarIntLength(unpEnc, unpState.cpos)
    IN  /\ unpState.pos - unpState.cpos <= 10
        /\ unpState.pos <= Len(unpEnc)
        /\ (n \in 1..10) =>
              /\ unpState.pos = unpState.cpos + n
              /\ unpState.osize = VarIntValue(unpEnc, unpState.cpos, n)

\* The parameters of a PREDICT command are those the format allows in a
\* profile of osize bytes.
PredictCommandOk(p, osize) ==
  /\ p.width \in {1, 2, 4}
  /\ p.order \in {0, 1, 2}
  /\ ~U64Less(p.stride, U64(p.width))
  /\ U64MulAdd(p.stride, 4, U64(0)).carry = 0
  /\ U64Less(U64MulAdd(p.stride, 4, U64(0)).v, osize)

\* C12: every PREDICT command that UnpredictICC executes has width in
\* {1,2,4}, order in {0,1,2}, stride >= width and 4 * stride < declared
\* size; a PREDICT command violating any of these is refused, it is the
\* last command fetched, and the decode fails.
C12_PredictCommands ==
  unpPc \in {"returned", "done"} =>
    \A k \in DOMAIN unpState.predicts :
      LET p == unpState.predicts[k]
      IN  /\ p.executed => PredictCommandOk(p, unpState.osize)
          /\ ~PredictCommandOk(p, unpState.osize) =>
                /\ ~p.executed
                /\ k = Len(unpState.predicts)
                /\ unpState.pc = "fail"
          /\ ~p.executed => unpState.pc = "fail"

\* A decode that succeeded after a PREDICT command with the largest stride
\* the 128 bytes of the header allow, taken from the command stream.
C12_Witness ==
  /\ unpPc = "returned" /\ unpState.pc = "ok"
  /\ Len(unpState.predicts) = 1
  /\ unpState.predicts[1].executed
  /\ unpState.predicts[1].width = 1
  /\ unpState.predicts[1].stride = U64(31)

-----------------------------------------------------------------------------
(* Claims about the ANS round trip                                         *)

\* The (symbol, bits) pairs of a token vector.
TokenPairs(tokens) ==
  [i \in 1..Len(tokens) |-> [symbol |-> tokens[i].symbol, bits |-> tokens[i].bits]]

AllTokensRead ==
  ansPc \in {"reading", "final_checked", "fail_final", "fail_magic2",
             "fail_close", "passed"} /\ Len(decoded) = Len(input_values)

\* C1: for every valid token vector, what the decoder returns after the
\* histograms and all tokens were written and read back is, token by token,
\* the symbol and the raw bits of the vector; no comparison of the round
\* trip fails.
C1_RoundTrip ==
  /\ \A i \in DOMAIN input_values : IsValidToken(input_values[i])
  /\ ansPc \notin {"fail_histograms", "fail_symbol", "fail_bits", "hang"}
  /\ AllTokensRead => decoded = TokenPairs(input_values)

\* C1 witness: a vector of two different tokens with raw bits, coded with a
\* skewed histogram so that the encoder emitted a chunk, was read back.
C1_Witness ==
  /\ ansPc = "passed" /\ Len(input_values) = 3
  /\ input_values[1].nbits = 3 /\ input_values[2].nbits = 16
  /\ input_values[3].context # input_values[1].context
  /\ encEmitted # <<>>
  /\ decoded = TokenPairs(input_values)

\* C2: once the decoder has consumed every token of the stream, the ANS
\* state is the canonical constant 0x130000 and CheckANSFinalState returns
\* true, for the empty vector too.
C2_FinalState ==
  /\ AllTokensRead => reader = kANSFinalState
  /\ ansPc # "fail_final"
  /\ ansPc \in {"final_checked", "passed"} => finalOk

\* C2 witness: the check passed for the empty vector, and for a vector whose
\* coding moved the state away from the constant.
C2_WitnessEmpty ==
  ansPc = "final_checked" /\ input_values = <<>> /\ finalOk

C2_Witness ==
  /\ ansPc = "final_checked" /\ Len(input_values) = MaxTokens /\ finalOk
  /\ encEmitted # <<>> /\ decPulled # <<>>

\* C4: the encoder processes the tokens last to first and the decoder reads
\* them first to last: at every point of the decoding loop the i-th pair
\* read is the i-th token given to the encoder, and every chunk the decoder
\* pulls is one the encoder emitted, taken in the reverse order.
C4_OrderPreserved ==
  /\ ansPc \notin {"start", "magic1_written", "histograms_written"}
       => encOrder = [i \in 1..Len(input_values) |-> Len(input_values) - i]
  /\ ansPc # "idle" =>
       /\ Len(decoded) <= Len(input_values)
       /\ \A i \in 1..Len(decoded) :
            decoded[i] = TokenPairs(input_values)[i]
       /\ Len(decPulled) <= Len(encEmitted)
       /\ \A i \in 1..Len(decPulled) :
            decPulled[i] = encEmitted[Len(encEmitted) + 1 - i]

\* C4 witness: in the middle of the loop the first of two different tokens
\* has been read and the second has not.
C4_Witness ==
  /\ ansPc = "reading" /\ Len(input_values) = 2 /\ Len(decoded) = 1
  /\ input_values[1].symbol # input_values[2].symbol
  /\ decoded[1] = TokenPairs(input_values)[1]
  /\ encOrder = <<1, 0>>

\* C17: after the histograms and all tokens are decoded the reader's bit
\* position is the writer's bit position at the end of WriteTokens, before
\* the padding, so the next 16 bits the reader returns are the sentinel
\* written right after the token body.
C17_ReaderMeetsWriter ==
  /\ (AllTokensRead /\ ansPc \in {"reading", "final_checked", "fail_final"})
       => br = bodyEnd
  /\ ansPc # "fail_magic2"
  /\ ansPc \in {"passed", "fail_close"} =>
       /\ br = bodyEnd + 16
       /\ ReadBits(writer, bodyEnd, 16) = kMagic2

\* C17 witness: the sentinel was read after a body of tokens with raw bits
\* that ends inside a byte.
C17_Witness ==
  /\ ansPc = "passed" /\ Len(input_values) = 2
  /\ input_values[1].nbits = 3 /\ input_values[2].nbits = 0
  /\ bodyEnd % 8 # 0 /\ br = bodyEnd + 16
  /\ Len(writer) > br

-----------------------------------------------------------------------------
(* Claims about the context map                                            *)

\* C19: DecodeHistograms recovers exactly the context map that
\* BuildAndEncodeHistograms emitted, Move-To-Front and the optional Lehmer
\* permutation inverted, for every context count, contexts that no token
\* uses included; in the recovered map every histogram index in 0..K-1
\* appears at least once, K <= 256 and max(m) < K.
C19_ContextMapRecovered ==
  cmPc = "read" =>
    /\ cm.ok
    /\ cm.dec_context_map = cm.context_map
    /\ cm.num_histograms = Len(cm.codes)
    /\ cm.num_histograms <= kMaxHistograms
    /\ \A i \in DOMAIN cm.dec_context_map :
         cm.dec_context_map[i] < cm.num_histograms
    /\ \A k \in 0..(cm.num_histograms - 1) :
         \E i \in DOMAIN cm.dec_context_map : cm.dec_context_map[i] = k

\* C19 witness: a map of three contexts onto two histograms, one of them
\* empty, written with a permuted initial list, was read back.
C19_Witness ==
  /\ cmPc = "read" /\ cm.ok
  /\ cm.context_map = <<1, 0, 1>> /\ cm.perm = <<1, 0>>
  /\ cm.dec_context_map = cm.context_map
  /\ cm.num_histograms = 2 /\ cm.codes[2] = <<>>

-----------------------------------------------------------------------------

(* Claims about the ANS encoder state                                      *)

\* What the decode step makes of the state the encoder left: the state
\* before the symbol was coded, or its upper half when a chunk was emitted.
DecodedBack ==
  AdvanceState(put.state,
               [symbol |-> 0, freq |-> put.freq,
                offset |-> (put.state.lo % ANS_TAB_SIZE) - put.start])

\* C20 as stated: after every encode step 2^16 <= s < 2^32, for every start
\* state in that range and every symbol with frequency 1..4096, when the step
\* is: while (s >> (32 - shift)) >= freq emit the low 16 bits and set
\* s >>= 16, then s = ((s / freq) << 12) | (start + s mod freq), shift the
\* smallest integer with freq << shift >= 2^16.
C20_StateInRangeAsStated ==
  put.steps > 0 => put.stated.state.hi >= 1 /\ ~put.stated.overflow

\* C20 amended: after every encode step 2^16 <= s < 2^32, for every start
\* state in that range and every symbol with frequency 1..4096, when the step
\* is: if (s >> 20) >= freq emit the low 16 bits and set s >>= 16, then
\* s = ((s / freq) << 12) | (start + s mod freq); nothing of the state is
\* lost, the decode step gives the previous state back.
C20_StateInRange ==
  put.steps > 0 =>
    /\ put.state.hi >= 1 /\ put.prev.hi >= 1
    /\ put.state.lo % ANS_TAB_SIZE \in put.start..(put.start + put.freq - 1)
    /\ IF put.chunks = <<>> THEN DecodedBack = put.prev
       ELSE /\ put.chunks = <<put.prev.lo>>
            /\ DecodedBack = [hi |-> 0, lo |-> put.prev.hi]

\* C20 witness: the second step in a row starts from a state in the top
\* 2^16 values of the range, emits a chunk and leaves a state in range.
C20_Witness ==
  /\ put.steps = 2 /\ put.chunks # <<>> /\ put.prev.hi = 65535
  /\ put.state.hi >= 1

\* C21: one decode step undoes one encode step: for every state s in
\* [2^16, 2^32) and every symbol of non-zero frequency, the decode step
\* applied to the state the encode step produced returns the symbol, restores
\* s, and pulls back exactly the 16-bit chunks the encode step emitted, in
\* reverse order of emission.
C21_DecodeUndoesEncode ==
  (putPc = "encoding" /\ put.steps > 0) =>
    /\ put.read.symbol = put.symbol
    /\ put.read.state = put.prev
    /\ put.read.pulled = Reverse(put.chunks)
    /\ put.read.pos = 16 * Len(put.chunks)
    /\ ~put.read.hang

\* C21 witness: a symbol of frequency 1 that is not the first of its
\* histogram was coded from a state that had to emit a chunk, and the decode
\* step pulled the chunk back.
C21_Witness ==
  /\ putPc = "encoding" /\ put.steps > 0
  /\ put.freq = 1 /\ put.symbol = 1 /\ put.prev.hi = 2048
  /\ put.chunks = <<65535>> /\ put.read.pulled = <<65535>>
  /\ put.read.state = put.prev

-----------------------------------------------------------------------------

(* Claims about ThreadParallelRunner                                       *)

\* The invocations of the function of call k that had the task among theirs.
InvocationsOf(k, task) ==
  {inv \in DOMAIN pool.log :
     inv.func = k /\ ~U32Less(task, inv.begin) /\ U32Less(task, inv.end)}

\* func of call k was invoked exactly once for every task of its range.
EveryTaskOnce(k) ==
  \A task \in TasksOf(pool.runs[k].start_range, pool.runs[k].end_range) :
    \E inv \in InvocationsOf(k, task) :
      InvocationsOf(k, task) = {inv} /\ pool.log[inv] = 1

\* No thread is inside an invocation of the function of call k.
AllFinished(k) ==
  \A w \in Workers : ~(thr.worker[w].pc = "tasks" /\ thr.worker[w].func = k)

\* Call k went past the tests of the range, init and the depth.
RanTasks(k) ==
  /\ pool.runs[k].init_called /\ pool.runs[k].init_ret = 0
  /\ pool.runs[k].entered \/ pool.num_worker_threads = 0

\* C22: with start_range < end_range and init returning 0, Runner invokes
\* func exactly once for every task index of [start_range, end_range), run
\* on the caller or split among the workers, and returns only after every
\* invocation has finished.
C22_EveryTaskOnce ==
  \A k \in MainCalls :
    (pool.runs[k].done /\ RanTasks(k)) => EveryTaskOnce(k) /\ AllFinished(k)

\* C23: every func invocation made by RunRange receives a task index inside
\* [begin, end) and a thread index below max(num_worker_threads, 1), for
\* every 32-bit range, also when several workers push num_reserved_ past
\* num_tasks and when begin + num_reserved_ wraps modulo 2^32.
C23_TasksInRange ==
  \A w \in Workers :
    thr.worker[w].pc = "tasks" =>
      ~Stray(thr.worker[w]) /\ w < NumThreads

\* C24: a Runner call issued while another Runner call on the same pool
\* (with at least one worker thread) is in progress returns -1 without
\* running any task and without disturbing the call in progress (which
\* returns 0), and depth_ is 0 whenever no Runner call is in progress, so
\* that a later call returns 0.
C24_NoReentry ==
  /\ \A k \in NestedCalls :
       /\ pool.runs[k].ret = -1
       /\ \A inv \in DOMAIN pool.log : inv.func # k
  /\ \A k \in MainCalls :
       (pool.runs[k].done /\ pool.runs[k].init_called
          /\ pool.runs[k].init_ret = 0 /\ pool.num_worker_threads > 0)
         => pool.runs[k].ret = 0
  /\ (pool.phase = "live" /\ thr.main.pc = "idle") => pool.depth_ = 0

-----------------------------------------------------------------------------


\* A step in which main calls Runner and the call returns at once.
EarlyReturn ==
  /\ Len(pool'.runs) = Len(pool.runs) + 1
  /\ pool'.runs[Len(pool'.runs)].caller = "main"
  /\ pool'.runs[Len(pool'.runs)].done

\* C26: Runner returns -1 without calling init or func when
\* start_range > end_range, returns 0 without calling init or func when
\* start_range = end_range, and when init returns a non-zero value returns
\* that value without invoking func, and without changing depth_ or
\* starting workers.
C26_EarlyReturns ==
  /\ [](\A k \in MainCalls :
          LET run == pool.runs[k]
          IN  /\ U32Less(run.end_range, run.start_range) =>
                   run.done /\ run.ret = -1 /\ ~run.init_called
              /\ run.start_range = run.end_range =>
                   run.done /\ run.ret = 0 /\ ~run.init_called
              /\ (U32Less(run.start_range, run.end_range)
                    /\ run.init_ret # 0) =>
                   run.done /\ run.ret = run.init_ret /\ run.init_called
              /\ (~U32Less(run.start_range, run.end_range)
                    \/ run.init_ret # 0) =>
                   /\ ~run.entered
                   /\ \A inv \in DOMAIN pool.log : inv.func # k)
  /\ [][EarlyReturn =>
          /\ pool'.depth_ = pool.depth_
          /\ pool'.worker_start_command_ = pool.worker_start_command_
          /\ pool'.notified = pool.notified
          /\ pool'.log = pool.log
          /\ thr'.worker = thr.worker]_vars

\* C26 witness: on a pool of two workers one call with a reversed range has
\* returned -1 and the next, whose init returned 7, has returned 7.
C26_Witness ==
  /\ pool.num_worker_threads = 2 /\ Len(pool.runs) = 2
  /\ U32Less(pool.runs[1].end_range, pool.runs[1].start_range)
  /\ pool.runs[1].ret = -1
  /\ pool.runs[2].init_ret = 7 /\ pool.runs[2].ret = 7 /\ pool.runs[2].done
  /\ pool.depth_ = 0 /\ pool.worker_start_command_ = kWorkerWait

-----------------------------------------------------------------------------


\* main is inside a Runner call that uses the workers.
InRunner ==
  /\ pool.phase = "live"
  /\ thr.main.pc \in {"depth", "setup", "start", "notify", "barrier",
                      "undepth"}

\* A worker is inside func called with a task outside the range, from which
\* func need not return.
InStrayTask ==
  \E w \in Workers : thr.worker[w].pc = "tasks" /\ Stray(thr.worker[w])

\* C25: under fair scheduling and terminating tasks every Runner call on a
\* pool with worker threads eventually returns (each RunRange loop ends,
\* every worker reports ready again, no worker misses a start command), and
\* the destructor's kWorkerExit makes every worker thread return, so that
\* every join completes.
C25_RunnerReturns ==
  /\ InRunner ~> (thr.main.pc = "idle" \/ InStrayTask)
  /\ pool.phase = "dtor" ~> pool.phase = "destroyed"

-----------------------------------------------------------------------------


\* C27: for every input (enc, size) UnpredictICC reads no byte of enc at an
\* index >= size, and reads no byte of the command stream (a command, the
\* flags of a PREDICT, a byte of a VarInt of the commands) at an index >=
\* commands_end, also when a VarInt of the commands runs past commands_end or
\* past the end of the input.
C27_ReadsInBounds ==
  unpPc \in {"returned", "done"} =>
    /\ unpState.dread <= Len(unpEnc)
    /\ unpState.cread <= Len(unpEnc)
    /\ unpState.cread <= unpState.commands_end

\* C27 as the code has it: no byte of enc is read at an index >= size; a
\* command byte, the flags of a PREDICT and the first byte of a VarInt of the
\* commands are read below commands_end; DecodeVarInt is bounded by size
\* only, so the later bytes of a VarInt of the commands may be read from the
\* data at commands_end or after, and then cpos is past commands_end and
\* the decode fails.
C27_ReadsInBoundsOfInput ==
  unpPc \in {"returned", "done"} =>
    /\ unpState.dread <= Len(unpEnc)
    /\ unpState.cread <= Len(unpEnc)
    /\ unpState.cfirst <= unpState.commands_end
    /\ unpState.cread > unpState.commands_end =>
         /\ unpState.pc = "fail"
         /\ unpState.cpos > unpState.commands_end

\* A call returned after a VarInt of its commands, begun below commands_end,
\* was read on into the data.
C27_Witness ==
  /\ unpPc = "returned"
  /\ unpState.commands_end > 0
  /\ unpState.cfirst <= unpState.commands_end
  /\ unpState.cread > unpState.commands_end
  /\ unpState.pc = "fail"

-----------------------------------------------------------------------------


\* The last save() of the call of Process that returned was made with all
\* reads of the BitReader within bounds.
CheckpointWithinBounds ==
  AllReadsWithinBounds(Span, icc_reader.used_bits_base + iccCheckpoint.bits)

\* No symbol index between the last save() and i_ is a multiple of
\* kMaxCheckpointInterval: the last checkpoint is the one of the entry or of
\* the last such index.
NoCheckpointMissed ==
  \A j \in (iccCheckpoint.i + 1)..(icc_reader.i - 1) :
    j % kMaxCheckpointInterval # 0

\* C28: ICCReader::Process takes a checkpoint on entry and each time i_ is
\* a positive multiple of kMaxCheckpointInterval, after verifying that all
\* reads so far were in bounds; at most kMaxCheckpointInterval symbols are
\* ever decoded since the last checkpoint; and no checkpoint is taken from a
\* state that out-of-bounds reads produced.
C28_Checkpoints ==
  (iccPc = "processed" /\ iccStatus # "hang") =>
    /\ NoCheckpointMissed
    /\ iccCheckpoint.unsaved <= kMaxCheckpointInterval
    /\ CheckpointWithinBounds

-----------------------------------------------------------------------------


\* The input as VarInt(output_size) || VarInt(commands_size) || commands ||
\* data: the lengths of the two VarInts (0: not terminated within the
\* input), the two sizes, and the number of bytes after the commands.
WireSizeLengths ==
  LET l1 == VarIntLength(unpEnc, 0)
  IN  <<l1, IF l1 = 0 THEN 0 ELSE VarIntLength(unpEnc, l1)>>

WireOutputSize == U64ToNat(VarIntValue(unpEnc, 0, WireSizeLengths[1]))

WireCommandsSize ==
  U64ToNat(VarIntValue(unpEnc, WireSizeLengths[1], WireSizeLengths[2]))

WireDataStart == WireSizeLengths[1] + WireSizeLengths[2] + WireCommandsSize

\* The two sizes are there, each in at most two bytes, and the declared
\* output size is at most that of the header.
WireHeaderOnly ==
  /\ WireSizeLengths[1] \in 1..2 /\ WireSizeLengths[2] \in 1..2
  /\ WireOutputSize <= kICCHeaderSize

\* C29: for a declared output size osize <= 128 every output byte is the
\* data byte plus the prediction of that header byte, modulo 256; the decode
\* succeeds exactly when the command stream is empty and the data stream
\* holds exactly osize bytes; osize = 0 with no commands and no data yields
\* the empty profile.
C29_HeaderOnlyProfile ==
  (unpPc \in {"returned", "done"} /\ WireHeaderOnly) =>
    /\ \A k \in DOMAIN unpState.result :
         unpState.result[k]
           = (unpEnc[WireDataStart + k]
                + ICCInitialHeaderPrediction(U64(WireOutputSize))[k]) % 256
    /\ unpState.pc = "ok"
         <=> /\ WireCommandsSize = 0
             /\ Len(unpEnc) - WireDataStart = WireOutputSize
    /\ unpState.pc = "ok" => Len(unpState.result) = WireOutputSize
    /\ (WireOutputSize = 0 /\ WireCommandsSize = 0
          /\ Len(unpEnc) = WireDataStart) =>
         (unpState.pc = "ok" /\ unpState.result = <<>>)

\* A profile of exactly the 128 bytes of the header was decoded; the fourth
\* byte has the low byte of the declared size added.
C29_Witness ==
  /\ unpPc = "returned" /\ unpState.pc = "ok" /\ WireHeaderOnly
  /\ WireOutputSize = kICCHeaderSize /\ Len(unpState.result) = kICCHeaderSize
  /\ unpState.result[4] = (unpEnc[WireDataStart + 4] + kICCHeaderSize) % 256
  /\ unpState.result[4] # unpEnc[WireDataStart + 4]

-----------------------------------------------------------------------------


(* Claims about the Lehmer code                                            *)

\* C8: decoding the code computed from a valid permutation gives the
\* permutation back, and computing the code of the permutation decoded from a
\* valid code gives the code back.
C8_LehmerRoundTrip ==
  /\ lehPc = "perm_done" => permutation = lehSrc
  /\ lehPc = "code_done" => code = lehSrc

\* C8 witness: both round trips have run on inputs of more than two items.
C8_Witness ==
  /\ lehPc = "perm_done" /\ lehN = 3 /\ lehSrc = <<2, 0, 1>>
  /\ permutation = lehSrc /\ code = <<2, 0, 0>>

\* C9 as stated: the code of [3,1,4,0,5,2,7,6] is [3,1,3,0,2,3,1,0] and
\* decoding recovers the permutation.
C9_ScenarioAsStated ==
  (lehSrc = ScenarioPermutation /\ lehPc \in {"encoded", "perm_done"})
    => /\ code = <<3, 1, 3, 0, 2, 3, 1, 0>>
       /\ lehPc = "perm_done" => permutation = ScenarioPermutation

\* C9 amended: the code of [3,1,4,0,5,2,7,6] is [3,1,2,0,1,0,1,0] (each entry
\* the number of smaller items not used yet), and decoding that code recovers
\* the permutation.
C9_ScenarioCode ==
  (lehSrc = ScenarioPermutation /\ lehPc \in {"encoded", "perm_done"})
    => /\ code = <<3, 1, 2, 0, 1, 0, 1, 0>>
       /\ lehPc = "perm_done" => permutation = ScenarioPermutation

C9_Witness ==
  /\ lehSrc = ScenarioPermutation /\ lehPc = "perm_done"
  /\ code = <<3, 1, 2, 0, 1, 0, 1, 0>> /\ permutation = ScenarioPermutation

-----------------------------------------------------------------------------
\* C30: for every n >= 1 and every valid input, ComputeLehmerCode uses only
\* temp[0..n], never violates s >= penalty and yields code[i] + i < n for
\* all i; DecodeLehmerCode uses only temp[0 .. 2^ceil(log2 n) - 1], never
\* violates code[i] + i < n and yields n distinct values all below n, also
\* when n is not a power of two.
C30_LehmerWithinScratch ==
  /\ lehPc \in {"encoded", "code_done"} =>
       LET run == ComputeLehmerRun(permutation, lehN)
       IN  /\ code = run.code
           /\ run.touched \subseteq 0..lehN
           /\ run.dassert
           /\ IsLehmerCode(code, lehN)
  /\ lehPc \in {"decoded", "perm_done"} =>
       LET run == DecodeLehmerRun(code, lehN)
       IN  /\ permutation = run.permutation
           /\ run.touched \subseteq 0..(Pow2(CeilLog2Nonzero(lehN)) - 1)
           /\ run.dassert
           /\ IsPermutation(permutation, lehN)

\* A code of three items, not a power of two, was decoded with a scratch
\* buffer of four elements, the last of which was used.
C30_Witness ==
  /\ lehPc = "decoded" /\ lehN = 3 /\ code = <<2, 1, 0>>
  /\ permutation = <<2, 1, 0>>
  /\ 3 \in DecodeLehmerRun(code, lehN).touched


(* Claims about the BitWriter and the BitReader                            *)

\* The low n bits of a 64-bit value.
LowBitsU64(n, v) ==
  [j \in 1..4 |->
     LET rest == n - 16 * (j - 1)
     IN  IF rest <= 0 THEN 0
         ELSE IF rest >= 16 THEN v[j] ELSE v[j] % Pow2(rest)]

\* The first i reads are the first i writes read back: the same bit counts
\* at the same positions.
Replayed(i) ==
  /\ i <= Len(bioW.log)
  /\ \A j \in 1..i : /\ bioR.got[j].n = bioW.log[j].n
                     /\ bioR.got[j].at = bioW.log[j].at

\* C14: after write(n_i, v_i) calls and zero_pad_to_byte, a reader over the
\* writer's span that reads the same bit counts in the same order gets, for
\* each i, the low n_i bits of v_i.
C14_BitRoundTrip ==
  bioPc \in {"reading", "closed"} =>
    \A i \in 1..Len(bioR.got) :
      Replayed(i) =>
        bioR.got[i].bits = LowBitsU64(bioW.log[i].n, bioW.log[i].bits)

\* A 56-bit and a 3-bit write, padded to the byte, read back by two reads.
C14_Witness ==
  /\ bioPc = "closed"
  /\ Len(bioW.log) = 2 /\ Len(bioR.got) = 2 /\ bioR.calls = 2
  /\ Replayed(2)
  /\ bioW.log[1].n = 56 /\ bioW.log[2].n = 3
  /\ Len(bioW.bits) = 64
  /\ bioR.got[1].bits = <<kMagic1, 65535, 32769, 255>>


\* The out-of-bounds flag of the reader.
OutOfBounds == ~AllReadsWithinBounds(bioW.bits, bioR.pos)

\* The bits a read or peek returned for positions past the end of the span
\* are zero.
ZeroPastEnd(r) ==
  \A k \in 0..(r.n - 1) :
    r.at + k >= Len(bioW.bits) => U64Bit(r.bits, k) = 0

\* C15: a read that extends past the end of the span returns zero bits there
\* and sets the out-of-bounds flag; the flag is sticky (once set it stays set
\* after every later read, peek or skip, and close returns false); while
\* every read and skip so far ended inside the span the flag is clear and
\* close returns true.
C15_StickyOutOfBounds ==
  /\ [](bioPc \in {"reading", "closed"} =>
          /\ \A i \in DOMAIN bioR.got :
               /\ ZeroPastEnd(bioR.got[i])
               /\ bioR.got[i].at + bioR.got[i].n > Len(bioW.bits)
                    => OutOfBounds
          /\ \A i \in DOMAIN bioR.peeked : ZeroPastEnd(bioR.peeked[i])
          /\ OutOfBounds <=> bioR.everOut
          /\ bioPc = "closed" =>
               /\ bioR.closes = 1
               /\ bioR.closeResult <=> ~bioR.everOut)
  /\ [][OutOfBounds => OutOfBounds']_vars

\* A read that begins inside the span and ends past it, then a peek, then
\* close returning false.
C15_Witness ==
  /\ bioPc = "closed" /\ ~bioR.closeResult
  /\ Len(bioR.got) = 1 /\ bioR.calls = 2
  /\ bioR.got[1].at < Len(bioW.bits)
  /\ bioR.got[1].at + bioR.got[1].n > Len(bioW.bits)
  /\ bioR.got[1].bits # U64(0)
  /\ bioR.peeked # <<>>
  /\ bioR.peeked[1].at = bioR.pos


\* The allotment in force, compared with the bits written since it began.
Overrun(w) ==
  Len(w.bits) - w.allotment[1].prev_bits_written > w.allotment[1].max_bits

\* C16: every write happens inside a reserved allotment; a reclaim with more
\* bits used than reserved aborts; a reclaim within the allotment releases the
\* unused tail, after which another allotment can be reserved and written.
C16_Allotments ==
  /\ [][/\ bioW'.bits # bioW.bits => bioW.allotment # <<>>
        /\ (bioW.allotment # <<>> /\ bioW'.allotment = <<>>) =>
             /\ ~Overrun(bioW)
             /\ bioW'.bits = bioW.bits
             /\ bioW'.cap = Len(bioW.bits)
        /\ (bioW.allotment # <<>> /\ bioW'.allotment # <<>> /\ Overrun(bioW))
             => bioW'.bits # bioW.bits \/ bioPc' = "aborted"]_vars
  /\ [](/\ bioPc = "aborted" => Overrun(bioW)
        /\ (bioPc = "writing" /\ bioW.allotment = <<>>
              /\ bioW.reclaims < MaxWrites) => ENABLED BitWriterReserve
        /\ (bioPc = "writing" /\ bioW.allotment # <<>>
              /\ Len(bioW.log) < MaxWrites) => ENABLED BitWriterWrite
        /\ bioPc \in {"reading", "closed"} => bioW.cap = Len(bioW.bits))

\* The two sentinels: 16 bits in an allotment of 16, then 16 bits and the
\* padding in an allotment of 24, both reclaimed.
C16_Witness ==
  /\ bioPc = "reading" /\ bioW.reclaims = 2
  /\ Len(bioW.log) = 2 /\ Len(bioW.bits) = 32
  /\ bioW.log[1].n = 16 /\ bioW.log[2].n = 16 /\ bioW.log[2].at = 16


-----------------------------------------------------------------------------
(* Claims about the closing of BitReaders                                  *)

\* C18: every BitReader is closed exactly once: on every path through
\* DecodeFile (and DoTestOneInput) that constructs the reader, whether the
\* function returns early with an error or runs to the end, the reader gets
\* closed, Close is called once, and its result (all reads in range) is what
\* the scoped closer leaves in ret; a path without a reader calls no Close.
C18_ClosedExactlyOnce ==
  /\ [](/\ df.closes <= 1
        /\ df.closes = 1 <=> df.reader = "closed"
        /\ df.reader = "closed" =>
             /\ df.closeResult = df.inRange
             /\ df.ret = df.closeResult
        /\ dfPc = "returned" => df.reader # "open"
        /\ (dfPc = "returned" /\ df.result = "true" /\ df.reader = "closed")
             => df.closeResult)
  /\ (df.reader = "open") ~> (dfPc = "returned" /\ df.closes = 1)

\* C18 witness: DecodeFile returned early from its second frame, after a
\* read past the end, and the reader was closed once with result false.
C18_Witness ==
  /\ dfPc = "returned" /\ df.fn = "DecodeFile" /\ df.result = "false"
  /\ df.frames = 1 /\ df.closes = 1 /\ ~df.closeResult /\ ~df.ret

=============================================================================
